---------------------------- MODULE Spec2Model ----------------------------
(***************************************************************************)
(* A model of the cleanup engine of kodelint/wiper.                        *)
(*                                                                         *)
(*   - processCleanupItems (pkg/cleaner/clean.go): the confirmation and    *)
(*     deletion state machine, with the two ledgers (SummaryTable) it      *)
(*     fills, ConfirmAction reading the operator's answers, and            *)
(*     RemovePath / GetFileSizeInBytes over a small filesystem.            *)
(*   - ContainsPath / ExpandPath (package utils): the ignore filter, over  *)
(*     path strings modelled as sequences of characters.                   *)
(*                                                                         *)
(* Strings that the code only compares for equality (categories, item      *)
(* paths of the engine) are TLA+ strings.  Strings that the code takes     *)
(* apart (the paths of the ignore filter) are sequences of one-character   *)
(* strings.                                                                *)
(***************************************************************************)
EXTENDS Integers, Sequences, FiniteSets, TLC

(***************************************************************************)
(* Bounds of the model.                                                    *)
(***************************************************************************)
\* the longest candidate sequence handed to processCleanupItems
MaxItems == 2
\* the largest size, in bytes, of a candidate or of a file on disk
MaxSize == 1
\* the most segments of a generated path string
MaxSegs == 2
\* the longest ignore list
MaxIgnore == 2
\* the longest ignore list given to the wipe command
MaxWipeIgnore == 1
\* the most aggregation roots of one cleanup target
MaxRoots == 3

Sizes == 0..MaxSize

(***************************************************************************)
(* The filesystem, as far as the engine looks at it: each path is absent,  *)
(* present with an on-disk size, or "denied" (os.Lstat fails with an error *)
(* other than not-exist).                                                  *)
(***************************************************************************)
Paths == {"/c/x", "/c/y"}

FileStates ==
    {[st |-> "absent", size |-> 0], [st |-> "denied", size |-> 0]}
        \cup {[st |-> "present", size |-> s] : s \in Sizes \ {0}}

\* The display root CleanSystem substitutes for a match (LogAggregationRoots).
AggregationRoot == "/c"

\* Every caller gives its items a non-empty category.
Categories == {"User Caches"}

\* cleanupItem: Path is the display path, ActualPath the path to delete.
CleanupItems ==
    [Path : Paths \cup {AggregationRoot}, Size : Sizes,
     Category : Categories, ActualPath : Paths]

\* The items a caller can build: the display path is the actual path or
\* an aggregation root of it.
ItemUniverse ==
    {it \in CleanupItems : it.Path \in {it.ActualPath, AggregationRoot}}

RECURSIVE SeqsUpTo(_, _)
SeqsUpTo(S, n) ==
    IF n = 0 THEN {<<>>}
    ELSE LET shorter == SeqsUpTo(S, n - 1)
         IN  shorter \cup {Append(s, x) : s \in {t \in shorter : Len(t) = n - 1}, x \in S}

VARIABLES
    items,             \* the candidate sequence of the call
    dryRun,            \* mode selectors of the call
    interactive,
    isApp,
    fs,                \* the filesystem: path -> FileStates
    estimatedSummary,  \* the estimated ledger (SummaryTable.Entries)
    summary,           \* the actual ledger (SummaryTable.Entries)
    pc,                \* position in processCleanupItems
    i,                 \* index of the next item of the running deletion loop
    aggregatedForTable,\* display key -> summed size, as built in step 1
    actualRemovedSize, \* the accumulator of the deletion loops
    totalReclaimed,    \* the returned total
    err,               \* the returned error
    answers,           \* the result of every ConfirmAction call so far
    lastInput,         \* the normalised line the last ConfirmAction acted on
    removeCalls,       \* the paths RemovePath was called on, in order
    targetPath,        \* ContainsPath: the path asked about
    ignorePaths,       \* ContainsPath: the ignore list
    home,              \* the value of the HOME environment variable
    cpPc,              \* position of the ContainsPath call
    cpResult,          \* what ContainsPath returned
    largeFilesFlag,    \* wipe --large-files
    args,              \* the positional arguments of wipe: at most one name
    dryRunFlag,        \* --dry-run
    interactiveFlag,   \* wipe --interactive
    showWarnings,      \* WIPER_SHOW_WARNINGS = "true"
    showDetails,       \* WIPER_SHOW_DETAILS = "true"
    wipePc,            \* position in wipeCmd.RunE
    runErr,            \* the error RunE returns
    reclaimed,         \* RunE's reclaimed, as printed at its end
    logged,            \* the log lines that depend on the two toggles
    argPath,           \* the path given to a function called on its own
    argRoots,          \* target.LogAggregationRoots of that call
    retDisplayPath,    \* the display path CleanSystem chose for argPath
    retCategory,       \* what categorizeLargeFilePath returned for argPath
    callPc,            \* position of that call
    runsBefore         \* what the runs made before this one had produced

engineVars ==
    <<items, dryRun, interactive, isApp, fs, estimatedSummary, summary, pc, i,
      aggregatedForTable, actualRemovedSize, totalReclaimed, err, answers, lastInput,
      removeCalls>>

ignoreVars == <<targetPath, ignorePaths, home, cpPc, cpResult>>

\* the command line, the environment and the position of the wipe command
wipeCtl ==
    <<largeFilesFlag, args, dryRunFlag, interactiveFlag, showWarnings, showDetails,
      wipePc, runErr, reclaimed>>

wipeVars == <<wipeCtl, logged>>

\* the input and the result of a function called on its own
pureVars == <<argPath, argRoots, retDisplayPath, retCategory, callPc>>

\* what a run of the command leaves alone
restVars == <<pureVars, runsBefore>>

vars == <<engineVars, ignoreVars, restVars, wipeVars>>

(***************************************************************************)
(* The ledger: reclaimer.SummaryTable.                                     *)
(***************************************************************************)
NewSummaryTable == <<>>

\* An entry put in front of the others.
AddEntry_Prepend(st, path, sizeReclaimed, wasRemoved, category) ==
    <<[Path |-> path, SizeReclaimed |-> sizeReclaimed,
       WasRemoved |-> wasRemoved, Category |-> category]>> \o st

AddEntry(st, path, sizeReclaimed, wasRemoved, category) ==
    Append(st, [Path |-> path, SizeReclaimed |-> sizeReclaimed,
                WasRemoved |-> wasRemoved, Category |-> category])

RECURSIVE TotalReclaimedBytes(_)
TotalReclaimedBytes(st) ==
    IF st = <<>> THEN 0
    ELSE st[Len(st)].SizeReclaimed + TotalReclaimedBytes(SubSeq(st, 1, Len(st) - 1))


\* PrintTable's output: the per-category rows and the TOTAL RECLAIMED footer.
\* With dryRun every entry counts towards its row, otherwise only the
\* removed ones; the footer is TotalReclaimedBytes in both cases.
RECURSIVE GroupedTotal(_, _, _)
GroupedTotal(st, dry, category) ==
    IF st = <<>> THEN 0
    ELSE LET e == st[Len(st)]
             rest == GroupedTotal(SubSeq(st, 1, Len(st) - 1), dry, category)
         IN  IF e.Category = category /\ (dry \/ e.WasRemoved)
             THEN rest + e.SizeReclaimed
             ELSE rest

PrintTable(st, dry) ==
    IF Len(st) = 0 THEN [printed |-> FALSE, rows |-> <<>>, footer |-> 0]
    ELSE LET cats == IF dry
                     THEN {st[j].Category : j \in 1..Len(st)}
                     ELSE {st[j].Category : j \in {n \in 1..Len(st) : st[n].WasRemoved}}
         IN  [printed |-> TRUE,
              rows |-> [c \in cats |-> GroupedTotal(st, dry, c)],
              footer |-> TotalReclaimedBytes(st)]

(***************************************************************************)
(* ConfirmAction: the operator's answer at one prompt.                     *)
(***************************************************************************)
\* Lines the operator may type (without the line end).
RawLines == {"y", " YES ", "n", "No", "", "maybe"}

\* strings.ToLower(strings.TrimSpace(input)) on the lines above.
ToLowerTrimSpace(line) ==
    CASE line = "y"     -> "y"
      [] line = " YES " -> "yes"
      [] line = "n"     -> "n"
      [] line = "No"    -> "no"
      [] line = ""      -> ""
      [] line = "maybe" -> "maybe"

\* ConfirmAction with the default on empty input turned into a yes.
ConfirmAction_EmptyIsYes(line) ==
    LET input == ToLowerTrimSpace(line)
    IN  IF input = "y" \/ input = "yes" \/ input = ""
        THEN [answer |-> "yes", input |-> input]
        ELSE IF input = "n" \/ input = "no"
             THEN [answer |-> "no", input |-> input]
             ELSE [answer |-> "again", input |-> input]

\* One pass of ConfirmAction's loop over the line read: a yes or a no ends
\* the loop with that answer, anything else prints "Invalid input" and
\* asks again.  At end of input ReadString returns "" (its error is
\* dropped), which is the line "".
ConfirmAction(line) ==
    LET input == ToLowerTrimSpace(line)
    IN  IF input = "y" \/ input = "yes" THEN [answer |-> "yes", input |-> input]
        ELSE IF input = "n" \/ input = "no" \/ input = ""
             THEN [answer |-> "no", input |-> input]
             ELSE [answer |-> "again", input |-> input]

(***************************************************************************)
(* utils.GetFileSizeInBytes and utils.RemovePath.                          *)
(***************************************************************************)
\* A path that does not exist has size 0 and no error; any other Lstat
\* failure is an error; otherwise the on-disk size (of the file, or of the
\* directory walk, which skips what it cannot read and never fails).
GetFileSizeInBytes(f, path) ==
    CASE f[path].st = "absent"  -> [size |-> 0, err |-> FALSE]
      [] f[path].st = "denied"  -> [size |-> 0, err |-> TRUE]
      [] f[path].st = "present" -> [size |-> f[path].size, err |-> FALSE]

\* The call of os.RemoveAll is commented out in RemovePath (lines 265-269):
\* the function measures, logs and returns.  The filesystem it leaves is f.
RemovePath(f, path, dry) ==
    LET sz == GetFileSizeInBytes(f, path)
    IN  IF sz.err THEN [size |-> 0, err |-> TRUE, fs |-> f]
        ELSE IF dry THEN [size |-> sz.size, err |-> FALSE, fs |-> f]
        ELSE [size |-> sz.size, err |-> FALSE, fs |-> f]

\* if os.Getenv("WIPER_SHOW_DETAILS") == "true" { Infof("Removed %s", ...) }
RemovedNotice(lg, path) ==
    IF showDetails THEN Append(lg, [msg |-> "Removed", path |-> path]) ELSE lg

(***************************************************************************)
(* processCleanupItems, step 1: aggregation and the estimated ledger.      *)
(***************************************************************************)
\* The key an item is aggregated under in aggregatedForTable.
DisplayKey(item) ==
    IF item.Path = item.ActualPath /\ item.Category # ""
    THEN item.Category
    ELSE item.Path

\* The aggregation with "=" in place of "+=": a display key keeps the size
\* of its last item.
RECURSIVE AggregatedForTable_Overwrite(_)
AggregatedForTable_Overwrite(its) ==
    IF its = <<>> THEN <<>>
    ELSE LET rest == AggregatedForTable_Overwrite(SubSeq(its, 1, Len(its) - 1))
             item == its[Len(its)]
             key  == DisplayKey(item)
         IN  [k \in (DOMAIN rest) \cup {key} |->
                 IF k = key THEN item.Size ELSE rest[k]]

\* aggregatedForTable after the loop over its: display key -> summed size.
RECURSIVE AggregatedForTable(_)
AggregatedForTable(its) ==
    IF its = <<>> THEN <<>>
    ELSE LET rest == AggregatedForTable(SubSeq(its, 1, Len(its) - 1))
             item == its[Len(its)]
             key  == DisplayKey(item)
             old  == IF key \in DOMAIN rest THEN rest[key] ELSE 0
         IN  [k \in (DOMAIN rest) \cup {key} |->
                 IF k = key THEN old + item.Size ELSE rest[k]]

\* The estimate loop skipping the items of size 0.
RECURSIVE AddEstimated_SkipEmpty(_, _)
AddEstimated_SkipEmpty(est, its) ==
    IF its = <<>> THEN est
    ELSE AddEstimated_SkipEmpty(
             IF Head(its).Size = 0 THEN est
             ELSE AddEntry(est, Head(its).ActualPath, Head(its).Size, FALSE, Head(its).Category),
             Tail(its))

\* estimatedSummary after the loop over its, starting from est.
RECURSIVE AddEstimated(_, _)
AddEstimated(est, its) ==
    IF its = <<>> THEN est
    ELSE AddEstimated(
             AddEntry(est, Head(its).ActualPath, Head(its).Size, FALSE, Head(its).Category),
             Tail(its))

\* The orders in which the range over the map aggregatedForTable can fill
\* tableItems: Go leaves the iteration order of a map unspecified.
TableItemOrders(agg) ==
    LET keys == DOMAIN agg
        n    == Cardinality(keys)
    IN  {[j \in 1..n |-> [Path |-> ord[j], Size |-> agg[ord[j]]]] :
            ord \in {o \in [1..n -> keys] : \A a, b \in 1..n : a # b => o[a] # o[b]}}

RECURSIVE SumTableItems(_)
SumTableItems(tis) ==
    IF tis = <<>> THEN 0
    ELSE tis[Len(tis)].Size + SumTableItems(SubSeq(tis, 1, Len(tis) - 1))

\* The chain with the application branch tested before the interactive one.
Mode_AppBeforeInteractive(dry, inter, app) ==
    IF dry THEN "dryrun"
    ELSE IF app THEN "app"
    ELSE IF inter THEN "interactive"
    ELSE "confirm"

\* The if / else-if chain that picks the behaviour of the call.
Mode(dry, inter, app) ==
    IF dry THEN "dryrun"
    ELSE IF inter THEN "interactive"
    ELSE IF app THEN "app"
    ELSE "confirm"

(***************************************************************************)
(* Path strings, as sequences of one-character strings, and the functions  *)
(* of strings and path/filepath that ExpandPath and ContainsPath call.     *)
(***************************************************************************)
HasPrefix(s, prefix) ==
    /\ Len(prefix) <= Len(s)
    /\ SubSeq(s, 1, Len(prefix)) = prefix

\* strings.Index: the first position where sub starts in s, 0 when none.
Index(s, sub) ==
    LET hits == {k \in 1..(Len(s) - Len(sub) + 1) : SubSeq(s, k, k + Len(sub) - 1) = sub}
    IN  IF hits = {} THEN 0 ELSE CHOOSE k \in hits : \A h \in hits : k <= h

Contains(s, sub) == Index(s, sub) # 0

\* strings.ReplaceAll for a non-empty old: left to right, not overlapping.
RECURSIVE ReplaceAll(_, _, _)
ReplaceAll(s, old, new) ==
    LET k == Index(s, old)
    IN  IF k = 0 THEN s
        ELSE SubSeq(s, 1, k - 1) \o new
                \o ReplaceAll(SubSeq(s, k + Len(old), Len(s)), old, new)

\* strings.Split(s, "/").
RECURSIVE SplitSlash(_)
SplitSlash(s) ==
    LET k == Index(s, <<"/">>)
    IN  IF k = 0 THEN <<s>>
        ELSE <<SubSeq(s, 1, k - 1)>> \o SplitSlash(SubSeq(s, k + 1, Len(s)))

RECURSIVE JoinSlash(_)
JoinSlash(elems) ==
    IF elems = <<>> THEN <<>>
    ELSE IF Len(elems) = 1 THEN elems[1]
    ELSE elems[1] \o <<"/">> \o JoinSlash(Tail(elems))

IsAbs(path) == HasPrefix(path, <<"/">>)

\* The elements filepath.Clean keeps: empty and "." elements go, ".." takes
\* the element before it along, ".." at the root goes, and ".." at the
\* start of a relative path stays.
RECURSIVE CleanElems(_, _, _)
CleanElems(kept, elems, rooted) ==
    IF elems = <<>> THEN kept
    ELSE LET e == Head(elems)
         IN  IF e = <<>> \/ e = <<".">> THEN CleanElems(kept, Tail(elems), rooted)
             ELSE IF e = <<".", ".">>
                  THEN IF kept # <<>> /\ kept[Len(kept)] # <<".", ".">>
                       THEN CleanElems(SubSeq(kept, 1, Len(kept) - 1), Tail(elems), rooted)
                       ELSE IF rooted THEN CleanElems(kept, Tail(elems), rooted)
                       ELSE CleanElems(Append(kept, e), Tail(elems), rooted)
                  ELSE CleanElems(Append(kept, e), Tail(elems), rooted)

\* filepath.Clean.
Clean(path) ==
    IF path = <<>> THEN <<".">>
    ELSE LET rooted == IsAbs(path)
             kept   == CleanElems(<<>>, SplitSlash(path), rooted)
         IN  IF rooted THEN <<"/">> \o JoinSlash(kept)
             ELSE IF kept = <<>> THEN <<".">>
             ELSE JoinSlash(kept)

\* filepath.Join of two elements: empty elements are dropped, the rest is
\* joined by "/" and cleaned; nothing left is "".
FilepathJoin(a, b) ==
    IF a = <<>> /\ b = <<>> THEN <<>>
    ELSE IF a = <<>> THEN Clean(b)
    ELSE IF b = <<>> THEN Clean(a)
    ELSE Clean(a \o <<"/">> \o b)

\* The working directory of the process (os.Getwd, which succeeds).
Cwd == <<"/", "b", "c">>

\* filepath.Abs.
Abs(path) ==
    IF IsAbs(path) THEN Clean(path) ELSE FilepathJoin(Cwd, path)

DollarHome == <<"$", "H", "O", "M", "E">>
DollarBraceHome == <<"$", "{", "H", "O", "M", "E", "}">>

\* ExpandPath without its two $HOME branches: only "~" is expanded.
ExpandPath_TildeOnly(path, h) ==
    IF HasPrefix(path, <<"~">>)
    THEN IF h # <<>> THEN FilepathJoin(h, SubSeq(path, 2, Len(path))) ELSE path
    ELSE path

\* utils.ExpandPath under HOME = h.  os.UserHomeDir is $HOME and fails when
\* it is empty; the path is then returned as it came.
ExpandPath(path, h) ==
    IF HasPrefix(path, <<"~">>)
    THEN IF h # <<>> THEN FilepathJoin(h, SubSeq(path, 2, Len(path))) ELSE path
    ELSE IF Contains(path, DollarHome)
    THEN IF h # <<>> THEN ReplaceAll(path, DollarHome, h) ELSE path
    ELSE IF Contains(path, DollarBraceHome)
    THEN IF h # <<>> THEN ReplaceAll(path, DollarBraceHome, h) ELSE path
    ELSE path

\* The test ContainsPath makes of the target against one ignore entry.
MatchesIgnored(absTargetPath, ignored, h) ==
    LET expandedIgnored  == ExpandPath(ignored, h)
        absIgnoredPath   == Abs(expandedIgnored)
        cleanTargetPath  == Clean(absTargetPath)
        cleanIgnoredPath == Clean(absIgnoredPath)
    IN  \/ cleanTargetPath = cleanIgnoredPath
        \/ HasPrefix(cleanTargetPath, cleanIgnoredPath \o <<"/">>)

\* utils.ContainsPath: the loop over the ignore list, true at the first
\* entry that matches.
RECURSIVE ContainsPathFrom(_, _, _)
ContainsPathFrom(absTargetPath, ignored, h) ==
    IF ignored = <<>> THEN FALSE
    ELSE IF MatchesIgnored(absTargetPath, Head(ignored), h) THEN TRUE
    ELSE ContainsPathFrom(absTargetPath, Tail(ignored), h)

ContainsPath(target, ignored, h) ==
    ContainsPathFrom(Abs(target), ignored, h)

(***************************************************************************)
(* The path strings the model draws: a prefix and up to MaxSegs segments   *)
(* joined by "/".                                                          *)
(***************************************************************************)
Segments == {<<"b">>, <<"b", "c">>, <<".", ".">>}

\* absolute, or relative to the working directory
TargetPrefixes == {<<"/">>, <<>>}

\* the same, and the two spellings of the home directory
IgnorePrefixes == TargetPrefixes \cup {<<"~", "/">>, DollarHome \o <<"/">>}

PathStrings(prefixes) ==
    {pre \o JoinSlash(segs) : pre \in prefixes, segs \in SeqsUpTo(Segments, MaxSegs)}

\* HOME set to a directory, or not set at all.
HomeValues == {<<"/", "b">>, <<>>}

(***************************************************************************)
(* The state before the call: a run of the tool makes two fresh ledgers    *)
(* (wipeCmd.RunE) and calls processCleanupItems once.                      *)
(***************************************************************************)
Init ==
    /\ items \in SeqsUpTo(ItemUniverse, MaxItems)
    /\ dryRun \in BOOLEAN
    /\ interactive \in BOOLEAN
    /\ isApp \in BOOLEAN
    /\ fs \in [Paths -> FileStates]
    /\ estimatedSummary = NewSummaryTable
    /\ summary = NewSummaryTable
    /\ pc = "call"
    /\ i = 1
    /\ aggregatedForTable = <<>>
    /\ actualRemovedSize = 0
    /\ totalReclaimed = 0
    /\ err = "nil"
    /\ answers = <<>>
    /\ lastInput = ""
    /\ removeCalls = <<>>
    /\ targetPath = <<>>
    /\ ignorePaths = <<>>
    /\ home = <<"/", "b">>
    /\ cpPc = "idle"
    /\ cpResult = FALSE
    /\ argPath = <<>>
    /\ argRoots = <<>>
    /\ retDisplayPath = <<>>
    /\ retCategory = ""
    /\ callPc = "idle"
    /\ runsBefore = <<>>
    /\ largeFilesFlag = FALSE
    /\ args = <<>>
    /\ dryRunFlag = FALSE
    /\ interactiveFlag = FALSE
    /\ showWarnings = FALSE
    /\ showDetails = FALSE
    /\ wipePc = "idle"
    /\ runErr = "nil"
    /\ reclaimed = 0
    /\ logged = <<>>

\* if len(items) == 0 { return 0, nil }
ReturnEmpty ==
    /\ UNCHANGED <<ignoreVars, restVars, wipeVars>>
    /\ pc = "call"
    /\ Len(items) = 0
    /\ pc' = "done"
    /\ totalReclaimed' = 0
    /\ err' = "nil"
    /\ UNCHANGED <<items, dryRun, interactive, isApp, fs, estimatedSummary, summary,
                   i, aggregatedForTable, actualRemovedSize, answers, lastInput, removeCalls>>

\* Step 1: the loop filling aggregatedForTable and the estimated ledger, and
\* the print of the estimated table.  The slice tableItems, built here from
\* the map, is read only by the two sums below; its order is drawn there.
Aggregate ==
    /\ UNCHANGED <<ignoreVars, restVars, wipeVars>>
    /\ pc = "call"
    /\ Len(items) # 0
    /\ estimatedSummary' = AddEstimated(estimatedSummary, items)
    /\ aggregatedForTable' = AggregatedForTable(items)
    /\ pc' = "mode"
    /\ UNCHANGED <<items, dryRun, interactive, isApp, fs, summary, i,
                   actualRemovedSize, totalReclaimed, err, answers, lastInput,
                   removeCalls>>

\* The branch on dryRun, interactive and isApp.
SelectMode ==
    /\ UNCHANGED <<ignoreVars, restVars, wipeVars>>
    /\ pc = "mode"
    /\ pc' = Mode(dryRun, interactive, isApp)
    /\ UNCHANGED <<items, dryRun, interactive, isApp, fs, estimatedSummary, summary,
                   i, aggregatedForTable, actualRemovedSize, totalReclaimed, err, answers,
                   lastInput, removeCalls>>

\* A dry run that takes what it lists off the disk before it returns.
DryRunReturn_RemovesItems ==
    /\ UNCHANGED <<ignoreVars, restVars, wipeVars>>
    /\ pc = "dryrun"
    /\ \E tableItems \in TableItemOrders(aggregatedForTable) :
          totalReclaimed' = SumTableItems(tableItems)
    /\ err' = "nil"
    /\ pc' = "done"
    /\ fs' = [p \in DOMAIN fs |->
                 IF \E k \in 1..Len(items) : items[k].ActualPath = p
                 THEN [fs[p] EXCEPT !.st = "absent"]
                 ELSE fs[p]]
    /\ UNCHANGED <<items, dryRun, interactive, isApp, estimatedSummary, summary,
                   i, aggregatedForTable, actualRemovedSize, answers, lastInput, removeCalls>>

\* if dryRun { sum tableItems; return }
DryRunReturn ==
    /\ UNCHANGED <<ignoreVars, restVars, wipeVars>>
    /\ pc = "dryrun"
    /\ \E tableItems \in TableItemOrders(aggregatedForTable) :
          totalReclaimed' = SumTableItems(tableItems)
    /\ err' = "nil"
    /\ pc' = "done"
    /\ UNCHANGED <<items, dryRun, interactive, isApp, fs, estimatedSummary, summary,
                   i, aggregatedForTable, actualRemovedSize, answers, lastInput, removeCalls>>

\* The interactive loop at the prompt for item i: the operator types a line.
\* A yes removes and records the item, a no records it as skipped, and both
\* move on to the next item; any other line leaves the prompt standing.
InteractiveItem ==
    /\ UNCHANGED <<ignoreVars, restVars, wipeCtl>>
    /\ pc = "interactive"
    /\ i <= Len(items)
    /\ \E line \in RawLines :
          LET item == items[i]
              c    == ConfirmAction(line)
              r    == RemovePath(fs, item.ActualPath, FALSE)
          IN  CASE c.answer = "yes" ->
                    /\ answers' = Append(answers, TRUE)
                    /\ lastInput' = c.input
                    /\ removeCalls' = Append(removeCalls, item.ActualPath)
                    /\ fs' = r.fs
                    /\ IF r.err
                       THEN /\ summary' = AddEntry(summary, item.ActualPath, item.Size, FALSE, item.Category)
                            /\ UNCHANGED <<actualRemovedSize, logged>>
                       ELSE /\ actualRemovedSize' = actualRemovedSize + r.size
                            /\ summary' = AddEntry(summary, item.ActualPath, r.size, TRUE, item.Category)
                            /\ logged' = RemovedNotice(logged, item.ActualPath)
                    /\ i' = i + 1
                [] c.answer = "no" ->
                    /\ answers' = Append(answers, FALSE)
                    /\ lastInput' = c.input
                    /\ summary' = AddEntry(summary, item.ActualPath, item.Size, FALSE, item.Category)
                    /\ i' = i + 1
                    /\ UNCHANGED <<removeCalls, fs, actualRemovedSize, logged>>
                [] c.answer = "again" ->
                    UNCHANGED <<answers, lastInput, removeCalls, fs, summary,
                                actualRemovedSize, i, logged>>
    /\ UNCHANGED <<items, dryRun, interactive, isApp, estimatedSummary, pc,
                   aggregatedForTable, totalReclaimed, err>>

\* The application-mode loop returning the error of a failed removal
\* instead of going on to the next item.
AppItem_AbortOnError ==
    /\ UNCHANGED <<ignoreVars, restVars, wipeCtl>>
    /\ pc = "app"
    /\ i <= Len(items)
    /\ LET item == items[i]
           r    == RemovePath(fs, item.ActualPath, FALSE)
       IN  /\ removeCalls' = Append(removeCalls, item.ActualPath)
           /\ fs' = r.fs
           /\ IF r.err
              THEN /\ pc' = "done"
                   /\ err' = "remove failed"
                   /\ UNCHANGED <<summary, actualRemovedSize, i, logged>>
              ELSE /\ actualRemovedSize' = actualRemovedSize + r.size
                   /\ summary' = AddEntry(summary, item.ActualPath, r.size, TRUE, item.Category)
                   /\ logged' = RemovedNotice(logged, item.ActualPath)
                   /\ i' = i + 1
                   /\ UNCHANGED <<pc, err>>
    /\ UNCHANGED <<items, dryRun, interactive, isApp, estimatedSummary,
                   aggregatedForTable, totalReclaimed, answers, lastInput>>

\* The application-mode loop recording a failed removal as removed.
AppItem_FailureMarkedRemoved ==
    /\ UNCHANGED <<ignoreVars, restVars, wipeCtl>>
    /\ pc = "app"
    /\ i <= Len(items)
    /\ LET item == items[i]
           r    == RemovePath(fs, item.ActualPath, FALSE)
       IN  /\ removeCalls' = Append(removeCalls, item.ActualPath)
           /\ fs' = r.fs
           /\ IF r.err
              THEN /\ summary' = AddEntry(summary, item.ActualPath, item.Size, TRUE, item.Category)
                   /\ UNCHANGED <<actualRemovedSize, logged>>
              ELSE /\ actualRemovedSize' = actualRemovedSize + r.size
                   /\ summary' = AddEntry(summary, item.ActualPath, r.size, TRUE, item.Category)
                   /\ logged' = RemovedNotice(logged, item.ActualPath)
    /\ i' = i + 1
    /\ UNCHANGED <<items, dryRun, interactive, isApp, estimatedSummary, pc,
                   aggregatedForTable, totalReclaimed, err, answers, lastInput>>

\* One iteration of the application-mode loop: remove and record, no prompt.
AppItem ==
    /\ UNCHANGED <<ignoreVars, restVars, wipeCtl>>
    /\ pc = "app"
    /\ i <= Len(items)
    /\ LET item == items[i]
           r    == RemovePath(fs, item.ActualPath, FALSE)
       IN  /\ removeCalls' = Append(removeCalls, item.ActualPath)
           /\ fs' = r.fs
           /\ IF r.err
              THEN /\ summary' = AddEntry(summary, item.ActualPath, item.Size, FALSE, item.Category)
                   /\ UNCHANGED <<actualRemovedSize, logged>>
              ELSE /\ actualRemovedSize' = actualRemovedSize + r.size
                   /\ summary' = AddEntry(summary, item.ActualPath, r.size, TRUE, item.Category)
                   /\ logged' = RemovedNotice(logged, item.ActualPath)
    /\ i' = i + 1
    /\ UNCHANGED <<items, dryRun, interactive, isApp, estimatedSummary, pc,
                   aggregatedForTable, totalReclaimed, err, answers, lastInput>>

\* The single confirmation without the return on a no: the deletion loop
\* runs whatever the answer.
BatchConfirm_DeclineFallsThrough ==
    /\ UNCHANGED <<ignoreVars, restVars, wipeVars>>
    /\ pc = "confirm"
    /\ \E line \in RawLines :
          LET c == ConfirmAction(line)
          IN  CASE c.answer = "yes" ->
                    /\ answers' = Append(answers, TRUE)
                    /\ lastInput' = c.input
                    /\ pc' = "batch"
                [] c.answer = "no" ->
                    /\ answers' = Append(answers, FALSE)
                    /\ lastInput' = c.input
                    /\ pc' = "batch"
                [] c.answer = "again" ->
                    UNCHANGED <<answers, lastInput, pc>>
    /\ UNCHANGED <<items, dryRun, interactive, isApp, fs, estimatedSummary, summary,
                   i, aggregatedForTable, actualRemovedSize, removeCalls,
                   totalReclaimed, err>>

\* The single confirmation of the default mode, at its prompt: accepted, the
\* deletion loop follows; declined, the call returns 0, nil; any other line
\* leaves the prompt standing.
BatchConfirm ==
    /\ UNCHANGED <<ignoreVars, restVars, wipeVars>>
    /\ pc = "confirm"
    /\ \E line \in RawLines :
          LET c == ConfirmAction(line)
          IN  CASE c.answer = "yes" ->
                    /\ answers' = Append(answers, TRUE)
                    /\ lastInput' = c.input
                    /\ pc' = "batch"
                    /\ UNCHANGED <<totalReclaimed, err>>
                [] c.answer = "no" ->
                    /\ answers' = Append(answers, FALSE)
                    /\ lastInput' = c.input
                    /\ pc' = "done"
                    /\ totalReclaimed' = 0
                    /\ err' = "nil"
                [] c.answer = "again" ->
                    UNCHANGED <<answers, lastInput, pc, totalReclaimed, err>>
    /\ UNCHANGED <<items, dryRun, interactive, isApp, fs, estimatedSummary, summary,
                   i, aggregatedForTable, actualRemovedSize, removeCalls>>

\* One iteration of the deletion loop after an accepted confirmation.
BatchItem ==
    /\ UNCHANGED <<ignoreVars, restVars, wipeCtl>>
    /\ pc = "batch"
    /\ i <= Len(items)
    /\ LET item == items[i]
           r    == RemovePath(fs, item.ActualPath, FALSE)
       IN  /\ removeCalls' = Append(removeCalls, item.ActualPath)
           /\ fs' = r.fs
           /\ IF r.err
              THEN /\ summary' = AddEntry(summary, item.ActualPath, item.Size, FALSE, item.Category)
                   /\ UNCHANGED <<actualRemovedSize, logged>>
              ELSE /\ actualRemovedSize' = actualRemovedSize + r.size
                   /\ summary' = AddEntry(summary, item.ActualPath, r.size, TRUE, item.Category)
                   /\ logged' = RemovedNotice(logged, item.ActualPath)
    /\ i' = i + 1
    /\ UNCHANGED <<items, dryRun, interactive, isApp, estimatedSummary, pc,
                   aggregatedForTable, totalReclaimed, err, answers, lastInput>>

\* After a deletion loop: totalReclaimed = actualRemovedSize; return it, nil.
ReturnReclaimed ==
    /\ UNCHANGED <<ignoreVars, restVars, wipeVars>>
    /\ pc \in {"interactive", "app", "batch"}
    /\ i > Len(items)
    /\ totalReclaimed' = actualRemovedSize
    /\ err' = "nil"
    /\ pc' = "done"
    /\ UNCHANGED <<items, dryRun, interactive, isApp, fs, estimatedSummary, summary,
                   i, aggregatedForTable, actualRemovedSize, answers, lastInput, removeCalls>>

(***************************************************************************)
(* A call of ContainsPath on its own.                                      *)
(***************************************************************************)
InitIgnore ==
    /\ targetPath \in PathStrings(TargetPrefixes)
    /\ ignorePaths \in SeqsUpTo(PathStrings(IgnorePrefixes), MaxIgnore)
    /\ home \in HomeValues
    /\ cpPc = "call"
    /\ cpResult = FALSE
    /\ argPath = <<>>
    /\ argRoots = <<>>
    /\ retDisplayPath = <<>>
    /\ retCategory = ""
    /\ callPc = "idle"
    /\ runsBefore = <<>>
    /\ items = <<>>
    /\ dryRun = FALSE
    /\ interactive = FALSE
    /\ isApp = FALSE
    /\ fs = [p \in Paths |-> [st |-> "absent", size |-> 0]]
    /\ estimatedSummary = NewSummaryTable
    /\ summary = NewSummaryTable
    /\ pc = "idle"
    /\ i = 1
    /\ aggregatedForTable = <<>>
    /\ actualRemovedSize = 0
    /\ totalReclaimed = 0
    /\ err = "nil"
    /\ answers = <<>>
    /\ lastInput = ""
    /\ removeCalls = <<>>
    /\ largeFilesFlag = FALSE
    /\ args = <<>>
    /\ dryRunFlag = FALSE
    /\ interactiveFlag = FALSE
    /\ showWarnings = FALSE
    /\ showDetails = FALSE
    /\ wipePc = "idle"
    /\ runErr = "nil"
    /\ reclaimed = 0
    /\ logged = <<>>

ContainsPathCall ==
    /\ cpPc = "call"
    /\ cpResult' = ContainsPath(targetPath, ignorePaths, home)
    /\ cpPc' = "done"
    /\ UNCHANGED <<targetPath, ignorePaths, home>>
    /\ UNCHANGED <<engineVars, restVars, wipeVars>>

NextIgnore == ContainsPathCall

SpecIgnore == InitIgnore /\ [][NextIgnore]_vars

Next ==
    \/ ReturnEmpty
    \/ Aggregate
    \/ SelectMode
    \/ DryRunReturn
    \/ InteractiveItem
    \/ AppItem
    \/ BatchConfirm
    \/ BatchItem
    \/ ReturnReclaimed

Spec == Init /\ [][Next]_vars

(***************************************************************************)
(* The wipe command.  Its paths are sequences of characters, as the paths  *)
(* of the ignore filter: the three discovery strategies build them, match  *)
(* them against patterns and take them apart.  First the string literals   *)
(* of the three strategies, character by character.                        *)
(***************************************************************************)
strTilde == <<"~">>
strStar == <<"*">>
strLibrary == <<"L", "i", "b", "r", "a", "r", "y">>
strCaches == <<"C", "a", "c", "h", "e", "s">>
strTemporaryItems == <<"T", "e", "m", "p", "o", "r", "a", "r", "y", "I", "t", "e", "m", "s">>
strVarFoldersPattern ==
    <<"/", "p", "r", "i", "v", "a", "t", "e", "/", "v", "a", "r", "/", "f", "o", "l", "d", "e",
      "r", "s", "/", "*", "/", "*", "/", "T", "/", "*">>
strPrivateVarFolders ==
    <<"/", "p", "r", "i", "v", "a", "t", "e", "/", "v", "a", "r", "/", "f", "o", "l", "d", "e",
      "r", "s">>
strPrivateVarTmpPattern ==
    <<"/", "p", "r", "i", "v", "a", "t", "e", "/", "v", "a", "r", "/", "t", "m", "p", "/", "*">>
strTmpPattern == <<"/", "t", "m", "p", "/", "*">>
strPrivateVarTmp ==
    <<"/", "p", "r", "i", "v", "a", "t", "e", "/", "v", "a", "r", "/", "t", "m", "p">>
strTmp == <<"/", "t", "m", "p">>
strLibraryCachesPattern ==
    <<"/", "L", "i", "b", "r", "a", "r", "y", "/", "C", "a", "c", "h", "e", "s", "/", "*">>
strSlashLibraryCaches ==
    <<"/", "L", "i", "b", "r", "a", "r", "y", "/", "C", "a", "c", "h", "e", "s">>
strLogs == <<"L", "o", "g", "s">>
strApplicationSupport ==
    <<"A", "p", "p", "l", "i", "c", "a", "t", "i", "o", "n", " ", "S", "u", "p", "p", "o", "r",
      "t">>
strGoogle == <<"G", "o", "o", "g", "l", "e">>
strChrome == <<"C", "h", "r", "o", "m", "e">>
strDefault == <<"D", "e", "f", "a", "u", "l", "t">>
strCache == <<"C", "a", "c", "h", "e">>
strServiceWorker == <<"S", "e", "r", "v", "i", "c", "e", " ", "W", "o", "r", "k", "e", "r">>
strCacheStorage == <<"C", "a", "c", "h", "e", "S", "t", "o", "r", "a", "g", "e">>
strComAppleSafari ==
    <<"c", "o", "m", ".", "a", "p", "p", "l", "e", ".", "S", "a", "f", "a", "r", "i">>
strFirefox == <<"F", "i", "r", "e", "f", "o", "x">>
strProfiles == <<"P", "r", "o", "f", "i", "l", "e", "s">>
strCache2 == <<"c", "a", "c", "h", "e", "2">>
strEntries == <<"e", "n", "t", "r", "i", "e", "s">>
strBraveSoftware == <<"B", "r", "a", "v", "e", "S", "o", "f", "t", "w", "a", "r", "e">>
strBraveBrowser == <<"B", "r", "a", "v", "e", "-", "B", "r", "o", "w", "s", "e", "r">>
strDotTrash == <<".", "T", "r", "a", "s", "h">>
strDownloads == <<"D", "o", "w", "n", "l", "o", "a", "d", "s">>
strDotApp == <<".", "a", "p", "p">>
strSlashApplications == <<"/", "A", "p", "p", "l", "i", "c", "a", "t", "i", "o", "n", "s">>
strApplications == <<"A", "p", "p", "l", "i", "c", "a", "t", "i", "o", "n", "s">>
strPreferences == <<"P", "r", "e", "f", "e", "r", "e", "n", "c", "e", "s">>
strSavedApplicationState ==
    <<"S", "a", "v", "e", "d", " ", "A", "p", "p", "l", "i", "c", "a", "t", "i", "o", "n", " ",
      "S", "t", "a", "t", "e">>
strContainers == <<"C", "o", "n", "t", "a", "i", "n", "e", "r", "s">>
strGroupContainers ==
    <<"G", "r", "o", "u", "p", " ", "C", "o", "n", "t", "a", "i", "n", "e", "r", "s">>
strComDot == <<"c", "o", "m", ".">>
strDotStar == <<".", "*">>
strSpace == <<" ">>
strSlashLibrary == <<"/", "L", "i", "b", "r", "a", "r", "y">>
strUsers == <<"/", "U", "s", "e", "r", "s">>
strPrivateTmp == <<"/", "p", "r", "i", "v", "a", "t", "e", "/", "t", "m", "p">>
strHomeDownloads == <<"$", "H", "O", "M", "E", "/", "D", "o", "w", "n", "l", "o", "a", "d", "s">>
strHomeDocuments == <<"$", "H", "O", "M", "E", "/", "D", "o", "c", "u", "m", "e", "n", "t", "s">>
strHomeApplications ==
    <<"$", "H", "O", "M", "E", "/", "A", "p", "p", "l", "i", "c", "a", "t", "i", "o", "n", "s",
      "/">>
strSystem == <<"/", "S", "y", "s", "t", "e", "m">>
strUsr == <<"/", "u", "s", "r">>
strDeveloper == <<"/", "D", "e", "v", "e", "l", "o", "p", "e", "r">>
strPrivateVar == <<"/", "p", "r", "i", "v", "a", "t", "e", "/", "v", "a", "r">>
strBrowserChromeSupport ==
    <<"~", "/", "L", "i", "b", "r", "a", "r", "y", "/", "A", "p", "p", "l", "i", "c", "a", "t",
      "i", "o", "n", " ", "S", "u", "p", "p", "o", "r", "t", "/", "G", "o", "o", "g", "l", "e",
      "/", "C", "h", "r", "o", "m", "e">>
strBrowserChromeCaches ==
    <<"~", "/", "L", "i", "b", "r", "a", "r", "y", "/", "C", "a", "c", "h", "e", "s", "/", "G",
      "o", "o", "g", "l", "e", "/", "C", "h", "r", "o", "m", "e">>
strBrowserBrave ==
    <<"~", "/", "L", "i", "b", "r", "a", "r", "y", "/", "A", "p", "p", "l", "i", "c", "a", "t",
      "i", "o", "n", " ", "S", "u", "p", "p", "o", "r", "t", "/", "B", "r", "a", "v", "e", "S",
      "o", "f", "t", "w", "a", "r", "e", "/", "B", "r", "a", "v", "e", "-", "B", "r", "o", "w",
      "s", "e", "r">>
strBrowserSafari ==
    <<"~", "/", "L", "i", "b", "r", "a", "r", "y", "/", "C", "a", "c", "h", "e", "s", "/", "c",
      "o", "m", ".", "a", "p", "p", "l", "e", ".", "S", "a", "f", "a", "r", "i">>
strBrowserFirefox ==
    <<"~", "/", "L", "i", "b", "r", "a", "r", "y", "/", "A", "p", "p", "l", "i", "c", "a", "t",
      "i", "o", "n", " ", "S", "u", "p", "p", "o", "r", "t", "/", "F", "i", "r", "e", "f", "o",
      "x">>
strTildeDownloads == <<"~", "/", "D", "o", "w", "n", "l", "o", "a", "d", "s">>
strTildeDocuments == <<"~", "/", "D", "o", "c", "u", "m", "e", "n", "t", "s">>
strTildeApplicationSupport ==
    <<"~", "/", "L", "i", "b", "r", "a", "r", "y", "/", "A", "p", "p", "l", "i", "c", "a", "t",
      "i", "o", "n", " ", "S", "u", "p", "p", "o", "r", "t">>
strTildeCaches == <<"~", "/", "L", "i", "b", "r", "a", "r", "y", "/", "C", "a", "c", "h", "e", "s">>
strTildeContainers ==
    <<"~", "/", "L", "i", "b", "r", "a", "r", "y", "/", "C", "o", "n", "t", "a", "i", "n", "e",
      "r", "s">>
strTildeGroupContainers ==
    <<"~", "/", "L", "i", "b", "r", "a", "r", "y", "/", "G", "r", "o", "u", "p", " ", "C", "o",
      "n", "t", "a", "i", "n", "e", "r", "s">>
strTildeMessages ==
    <<"~", "/", "L", "i", "b", "r", "a", "r", "y", "/", "M", "e", "s", "s", "a", "g", "e", "s",
      "/", "A", "t", "t", "a", "c", "h", "m", "e", "n", "t", "s">>
strTildeSpotlight ==
    <<"~", "/", "L", "i", "b", "r", "a", "r", "y", "/", "M", "e", "t", "a", "d", "a", "t", "a",
      "/", "C", "o", "r", "e", "S", "p", "o", "t", "l", "i", "g", "h", "t">>
strTildeLibrary == <<"~", "/", "L", "i", "b", "r", "a", "r", "y">>
strDotRustup == <<".", "r", "u", "s", "t", "u", "p">>
strDotNpm == <<".", "n", "p", "m">>
strDotGradle == <<".", "g", "r", "a", "d", "l", "e">>
strXcodeDeviceSupport ==
    <<"X", "c", "o", "d", "e", "/", "i", "O", "S", " ", "D", "e", "v", "i", "c", "e", "S", "u",
      "p", "p", "o", "r", "t">>
strAndroidSdk == <<"A", "n", "d", "r", "o", "i", "d", "/", "S", "d", "k">>
strJetBrains == <<"J", "e", "t", "B", "r", "a", "i", "n", "s">>
strTildeSlash == <<"~", "/">>
strVar == <<"/", "v", "a", "r">>
strOpt == <<"/", "o", "p", "t">>

\* strings.HasSuffix and strings.TrimSuffix.
HasSuffix(s, suffix) ==
    /\ Len(suffix) <= Len(s)
    /\ SubSeq(s, Len(s) - Len(suffix) + 1, Len(s)) = suffix

TrimSuffix(s, suffix) ==
    IF HasSuffix(s, suffix) THEN SubSeq(s, 1, Len(s) - Len(suffix)) ELSE s

\* strings.Replace(s, old, new, 1): the first occurrence only.
ReplaceFirst(s, old, new) ==
    LET k == Index(s, old)
    IN  IF k = 0 THEN s
        ELSE SubSeq(s, 1, k - 1) \o new \o SubSeq(s, k + Len(old), Len(s))

\* strings.ToLower, on the letters that application names of the model use.
LowerOf(c) ==
    CASE c = "F" -> "f"
      [] c = "A" -> "a"
      [] OTHER   -> c

ToLower(s) == [k \in 1..Len(s) |-> LowerOf(s[k])]

\* filepath.Join of any number of elements: the empty ones are dropped, the
\* rest is joined by "/" and cleaned; nothing left is "".
JoinAll(elems) ==
    LET nonEmpty == SelectSeq(elems, LAMBDA e : e # <<>>)
    IN  IF nonEmpty = <<>> THEN <<>> ELSE Clean(JoinSlash(nonEmpty))

\* filepath.Match of one path element against one pattern element, for
\* patterns of literal characters and "*" (any run of characters, none of
\* them a separator).
RECURSIVE Match(_, _)
Match(pattern, name) ==
    IF pattern = <<>> THEN name = <<>>
    ELSE IF Head(pattern) = "*"
         THEN \E k \in 0..Len(name) : Match(Tail(pattern), SubSeq(name, k + 1, Len(name)))
         ELSE /\ name # <<>>
              /\ Head(name) = Head(pattern)
              /\ Match(Tail(pattern), Tail(name))

\* A whole path against a whole pattern: element by element.
MatchPath(pattern, path) ==
    LET pe == SplitSlash(pattern)
        ne == SplitSlash(path)
    IN  /\ Len(pe) = Len(ne)
        /\ \A k \in 1..Len(pe) : Match(pe[k], ne[k])

HasMeta(pattern) == \E k \in 1..Len(pattern) : pattern[k] = "*"

(***************************************************************************)
(* The filesystem of the wipe command: a few files below the directories   *)
(* the strategies look into, with the directories that hold them.  A node  *)
(* is absent, present, or "denied" (listed by its directory, but Stat and  *)
(* Lstat fail on it).  size is its allocation on disk in bytes (Blocks *   *)
(* 512), age the hours since its modification.                             *)
(***************************************************************************)
UserHome == <<"/", "U", "s", "e", "r", "s", "/", "u">>

CachesX ==
    <<"/", "U", "s", "e", "r", "s", "/", "u", "/", "L", "i", "b", "r", "a", "r", "y", "/", "C",
      "a", "c", "h", "e", "s", "/", "x">>
CachesFoo ==
    <<"/", "U", "s", "e", "r", "s", "/", "u", "/", "L", "i", "b", "r", "a", "r", "y", "/", "C",
      "a", "c", "h", "e", "s", "/", "F", "o", "o">>
CachesTemporaryItems ==
    <<"/", "U", "s", "e", "r", "s", "/", "u", "/", "L", "i", "b", "r", "a", "r", "y", "/", "C",
      "a", "c", "h", "e", "s", "/", "T", "e", "m", "p", "o", "r", "a", "r", "y", "I", "t", "e",
      "m", "s">>
TemporaryItemsT ==
    <<"/", "U", "s", "e", "r", "s", "/", "u", "/", "L", "i", "b", "r", "a", "r", "y", "/", "C",
      "a", "c", "h", "e", "s", "/", "T", "e", "m", "p", "o", "r", "a", "r", "y", "I", "t", "e",
      "m", "s", "/", "t">>
TmpY == <<"/", "t", "m", "p", "/", "y">>
FooBundle ==
    <<"/", "A", "p", "p", "l", "i", "c", "a", "t", "i", "o", "n", "s", "/", "F", "o", "o", ".",
      "a", "p", "p">>
DownloadsBig ==
    <<"/", "U", "s", "e", "r", "s", "/", "u", "/", "D", "o", "w", "n", "l", "o", "a", "d", "s",
      "/", "b", "i", "g">>
PrivateTmpZ == <<"/", "p", "r", "i", "v", "a", "t", "e", "/", "t", "m", "p", "/", "z">>

DirDownloads ==
    <<"/", "U", "s", "e", "r", "s", "/", "u", "/", "D", "o", "w", "n", "l", "o", "a", "d",
      "s">>
DirLibrary ==
    <<"/", "U", "s", "e", "r", "s", "/", "u", "/", "L", "i", "b", "r", "a", "r", "y">>
DirCaches ==
    <<"/", "U", "s", "e", "r", "s", "/", "u", "/", "L", "i", "b", "r", "a", "r", "y", "/",
      "C", "a", "c", "h", "e", "s">>
DirPrivate == <<"/", "p", "r", "i", "v", "a", "t", "e">>

\* Every node, in the lexical order in which Glob and Walk list them.
WorldOrder ==
    <<strSlashApplications, FooBundle, strUsers, UserHome, DirDownloads, DownloadsBig,
      DirLibrary, DirCaches, CachesFoo, CachesTemporaryItems, TemporaryItemsT, CachesX,
      DirPrivate, strPrivateTmp, PrivateTmpZ, strTmp, TmpY>>

WorldPaths == {WorldOrder[k] : k \in 1..Len(WorldOrder)}

\* The nodes that are there in some runs only (TemporaryItems is a
\* directory when it is there); the other nodes are directories of every run.
Leaves ==
    {FooBundle, DownloadsBig, CachesFoo, CachesTemporaryItems, TemporaryItemsT, CachesX,
     PrivateTmpZ, TmpY}

Directories == WorldPaths \ Leaves

AbsentNode == [st |-> "absent", size |-> 0, kind |-> "file", age |-> 0]

DirectoryNode == [st |-> "present", size |-> 0, kind |-> "dir", age |-> 0]

\* os.Lstat and os.Stat succeed on path (no node of the model is a link).
StatOk(f, path) == path \in DOMAIN f /\ f[path].st = "present"

\* The names a directory listing shows.
Listed(f, path) == path \in DOMAIN f /\ f[path].st # "absent"

\* The nodes a pattern matches, element by element, in lexical order.
MatchingNodes(pattern) == SelectSeq(WorldOrder, LAMBDA p : MatchPath(pattern, p))

(***************************************************************************)
(* The declarative scan: getCleanupTargets and the discovery loop of       *)
(* CleanSystem.  MinAge and the ages of the files are in hours.            *)
(***************************************************************************)
\* Every path of the catalog is written as the list of the elements that
\* filepath.Join is given; a literal is a list of one element, which the
\* join leaves as it is.
getCleanupTargets(h) ==
    LET joined(lists) == [k \in 1..Len(lists) |-> JoinAll(lists[k])]
        finished(targets) ==
            [t \in 1..Len(targets) |->
                [targets[t] EXCEPT !.Paths = joined(@), !.LogAggregationRoots = joined(@)]]
        catalog(homeDir) ==
        << [Paths |-> << <<homeDir, strLibrary, strCaches, strTemporaryItems, strStar>>,
                         <<strVarFoldersPattern>> >>,
            Category |-> "User Temporary Files",
            MinAge |-> 24,
            LogAggregationRoots |->
                << <<homeDir, strLibrary, strCaches, strTemporaryItems>>,
                   <<strPrivateVarFolders>> >>],
           [Paths |-> << <<strPrivateVarTmpPattern>>, <<strTmpPattern>> >>,
            Category |-> "System Temporary Files",
            MinAge |-> 24,
            LogAggregationRoots |-> << <<strPrivateVarTmp>>, <<strTmp>> >>],
           [Paths |-> << <<homeDir, strLibrary, strCaches, strStar>> >>,
            Category |-> "User Caches",
            MinAge |-> 0,
            LogAggregationRoots |-> << <<homeDir, strLibrary, strCaches>> >>],
           [Paths |-> << <<strLibraryCachesPattern>> >>,
            Category |-> "System Caches",
            MinAge |-> 0,
            LogAggregationRoots |-> << <<strSlashLibraryCaches>> >>],
           [Paths |-> << <<homeDir, strLibrary, strLogs, strStar>> >>,
            Category |-> "User Logs",
            MinAge |-> 30 * 24,
            LogAggregationRoots |-> << <<homeDir, strLibrary, strLogs>> >>],
           [Paths |->
                << <<homeDir, strLibrary, strApplicationSupport, strGoogle, strChrome,
                             strDefault, strCache, strStar>>,
                   <<homeDir, strLibrary, strApplicationSupport, strGoogle, strChrome,
                             strDefault, strServiceWorker, strCacheStorage, strStar>>,
                   <<homeDir, strLibrary, strCaches, strGoogle, strChrome, strStar>>,
                   <<homeDir, strLibrary, strCaches, strComAppleSafari, strStar>>,
                   <<homeDir, strLibrary, strApplicationSupport, strFirefox,
                             strProfiles, strStar, strCache2, strEntries, strStar>>,
                   <<homeDir, strLibrary, strApplicationSupport, strBraveSoftware,
                             strBraveBrowser, strDefault, strCache, strStar>>,
                   <<homeDir, strLibrary, strCaches, strBraveSoftware,
                             strBraveBrowser, strStar>> >>,
            Category |-> "Browser Caches",
            MinAge |-> 0,
            LogAggregationRoots |->
                << <<homeDir, strLibrary, strApplicationSupport, strGoogle, strChrome>>,
                   <<homeDir, strLibrary, strCaches, strGoogle, strChrome>>,
                   <<homeDir, strLibrary, strCaches, strComAppleSafari>>,
                   <<homeDir, strLibrary, strApplicationSupport, strFirefox>>,
                   <<homeDir, strLibrary, strApplicationSupport, strBraveSoftware,
                             strBraveBrowser>>,
                   <<homeDir, strLibrary, strCaches, strBraveSoftware,
                             strBraveBrowser>> >>],
           [Paths |-> << <<homeDir, strDotTrash, strStar>> >>,
            Category |-> "Trash Bin",
            MinAge |-> 0,
            LogAggregationRoots |-> << <<homeDir, strDotTrash>> >>],
           [Paths |-> << <<homeDir, strDownloads, strStar>> >>,
            Category |-> "Downloads (old)",
            MinAge |-> 90 * 24,
            LogAggregationRoots |-> << <<homeDir, strDownloads>> >>] >>
    IN  finished(catalog(ExpandPath(strTilde, h)))

\* The loop over LogAggregationRoots: the first root, in list order, that
\* is a string prefix of the path; the path itself when there is none.
RECURSIVE DisplayPath(_, _)
DisplayPath(path, roots) ==
    IF roots = <<>> THEN path
    ELSE IF HasPrefix(path, Head(roots)) THEN Head(roots)
    ELSE DisplayPath(path, Tail(roots))

\* The values of HOME the model gives a run: the user's home, or unset.
HomeDirs == {UserHome, <<>>}

\* The catalog under each value of HOME, and what each of its patterns
\* matches among the nodes of the model: both are computed once.
CleanupTargets == [h \in HomeDirs |-> getCleanupTargets(h)]

Range(s) == {s[k] : k \in 1..Len(s)}

CatalogPatterns ==
    UNION {Range(target.Paths) :
              target \in UNION {Range(CleanupTargets[h]) : h \in HomeDirs}}

CatalogMatches == [pattern \in CatalogPatterns |-> MatchingNodes(pattern)]

\* The names an operator gives to wipe: an application with and without
\* the bundle suffix.
FooName == <<"F", "o", "o">>

AppNames == {FooName, FooName \o strDotApp}

\* var appInstallPaths: filepath.Join(os.Getenv("HOME"), "Applications").
appInstallPaths(h) == <<strSlashApplications, JoinAll(<<h, strApplications>>)>>

\* The name with ".app" appended whether or not it is there already.
NormalizeAppName_Always(appName) == appName \o strDotApp

\* Lines 40-42 of UninstallApplication.
NormalizeAppName(appName) ==
    IF ~HasSuffix(appName, strDotApp) THEN appName \o strDotApp ELSE appName

\* "com." + strings.ToLower(strings.ReplaceAll(name, " ", "")) + ".*"
PreferencesPattern(name) == strComDot \o ToLower(ReplaceAll(name, strSpace, <<>>)) \o strDotStar

\* The nine leftover locations, as UninstallApplication (lines 80-93) and
\* FindPaths (lines 396-406) both list them, below the home directory hd.
appDataPaths(hd, appName) ==
    LET preferences == PreferencesPattern(appName)
        containers  == strStar \o appName \o strStar
        elems ==
            <<<<hd, strLibrary, strApplicationSupport, appName>>,
              <<hd, strLibrary, strCaches, appName>>,
              <<hd, strLibrary, strPreferences, preferences>>,
              <<hd, strLibrary, strSavedApplicationState, preferences>>,
              <<hd, strLibrary, strContainers, containers>>,
              <<hd, strLibrary, strGroupContainers, containers>>,
              <<strSlashLibrary, strApplicationSupport, appName>>,
              <<strSlashLibrary, strCaches, appName>>,
              <<strSlashLibrary, strPreferences, preferences>>>>
    IN  [k \in 1..Len(elems) |-> JoinAll(elems[k])]

\* The patterns of the application scan for the names of the model, and
\* what each matches among the nodes of the model, computed once.
AppPatterns ==
    UNION {Range(appDataPaths(h, n)) \cup {JoinAll(<<base, n \o strDotApp>>) :
                                              base \in Range(appInstallPaths(h))} :
              h \in HomeDirs, n \in {FooName}}

AppMatches == [pattern \in AppPatterns |-> MatchingNodes(pattern)]

\* Every pattern whose matches are computed once, with its matches.
KnownMatches == CatalogMatches @@ AppMatches

\* table[key], or otherwise when the table has no such key.
Lookup(table, key, otherwise) == IF key \in DOMAIN table THEN table[key] ELSE otherwise

\* filepath.Glob: a pattern without "*" is the path itself when Lstat
\* succeeds on it; otherwise the nodes that match and that their directory
\* lists.  The patterns of the model are well formed, so Glob returns no
\* error.
Glob(pattern, f) ==
    IF ~HasMeta(pattern)
    THEN IF StatOk(f, pattern) THEN <<pattern>> ELSE <<>>
    ELSE SelectSeq(Lookup(KnownMatches, pattern, MatchingNodes(pattern)),
                   LAMBDA p : Listed(f, p))

\* The scan keeps three things: the candidates, whether a warning was
\* suppressed, and the log lines that WIPER_SHOW_WARNINGS lets through.
NoCandidates == [items |-> <<>>, suppressedWarnings |-> FALSE, logged |-> <<>>]

\* A per-path error: shown when sw (showWarnings), noted as suppressed
\* otherwise.
PathWarning(acc, sw, msg, path) ==
    IF sw
    THEN [acc EXCEPT !.logged = Append(@, [msg |-> msg, path |-> path])]
    ELSE [acc EXCEPT !.suppressedWarnings = TRUE]

\* The loop body skipping a match whose age is exactly MinAge as well.
SystemMatch_SkipsAtMinAge(acc, target, path, f, expandedIgnorePaths, h, sw) ==
    IF ContainsPath(path, expandedIgnorePaths, h) THEN acc
    ELSE IF ~StatOk(f, path) THEN PathWarning(acc, sw, "Error stating path", path)
    ELSE IF target.MinAge > 0 /\ f[path].age <= target.MinAge THEN acc
    ELSE LET sz == GetFileSizeInBytes(f, path)
         IN  IF sz.err THEN PathWarning(acc, sw, "Could not get size", path)
             ELSE [acc EXCEPT !.items =
                      Append(@, [Path |-> DisplayPath(path, target.LogAggregationRoots),
                                 Size |-> sz.size,
                                 Category |-> target.Category,
                                 ActualPath |-> path])]

\* The body of CleanSystem's loop over the matches of one pattern.
SystemMatch(acc, target, path, f, expandedIgnorePaths, h, sw) ==
    IF ContainsPath(path, expandedIgnorePaths, h) THEN acc
    ELSE IF ~StatOk(f, path) THEN PathWarning(acc, sw, "Error stating path", path)
    ELSE IF target.MinAge > 0 /\ f[path].age < target.MinAge THEN acc
    ELSE LET sz == GetFileSizeInBytes(f, path)
         IN  IF sz.err THEN PathWarning(acc, sw, "Could not get size", path)
             ELSE [acc EXCEPT !.items =
                      Append(@, [Path |-> DisplayPath(path, target.LogAggregationRoots),
                                 Size |-> sz.size,
                                 Category |-> target.Category,
                                 ActualPath |-> path])]

\* The loop over the matches of a pattern ending at the first match that
\* cannot be read.
RECURSIVE SystemMatches_StopsAtError(_, _, _, _, _, _, _)
SystemMatches_StopsAtError(acc, target, matches, f, expandedIgnorePaths, h, sw) ==
    IF matches = <<>> \/ ~StatOk(f, Head(matches)) THEN acc
    ELSE SystemMatches_StopsAtError(
             SystemMatch(acc, target, Head(matches), f, expandedIgnorePaths, h, sw),
             target, Tail(matches), f, expandedIgnorePaths, h, sw)

RECURSIVE SystemMatches(_, _, _, _, _, _, _)
SystemMatches(acc, target, matches, f, expandedIgnorePaths, h, sw) ==
    IF matches = <<>> THEN acc
    ELSE SystemMatches(SystemMatch(acc, target, Head(matches), f, expandedIgnorePaths, h, sw),
                       target, Tail(matches), f, expandedIgnorePaths, h, sw)

RECURSIVE SystemPatterns(_, _, _, _, _, _, _)
SystemPatterns(acc, target, patterns, f, expandedIgnorePaths, h, sw) ==
    IF patterns = <<>> THEN acc
    ELSE SystemPatterns(
             SystemMatches(acc, target, Glob(Head(patterns), f), f, expandedIgnorePaths, h, sw),
             target, Tail(patterns), f, expandedIgnorePaths, h, sw)

RECURSIVE SystemTargets(_, _, _, _, _, _)
SystemTargets(acc, targets, f, expandedIgnorePaths, h, sw) ==
    IF targets = <<>> THEN acc
    ELSE SystemTargets(
             SystemPatterns(acc, Head(targets), Head(targets).Paths, f,
                            expandedIgnorePaths, h, sw),
             Tail(targets), f, expandedIgnorePaths, h, sw)

\* The closing hint of a scan that suppressed a warning.
SuppressedHint(acc) ==
    IF acc.suppressedWarnings
    THEN [acc EXCEPT !.logged = Append(@, [msg |-> "Some warnings were suppressed",
                                           path |-> <<>>])]
    ELSE acc

\* CleanSystem up to its call of processCleanupItems: the ignore list is
\* expanded once, every target is scanned, the hint is logged.
CleanSystemScan(f, ignore, h, sw) ==
    LET expandedIgnorePaths == [k \in 1..Len(ignore) |-> ExpandPath(ignore[k], h)]
    IN  SuppressedHint(SystemTargets(NoCandidates, CleanupTargets[h], f,
                                     expandedIgnorePaths, h, sw))

(***************************************************************************)
(* wipeCmd.RunE.  A run starts with the flags and the environment set, two *)
(* fresh ledgers, and the filesystem as it is.  The strategy's action      *)
(* scans and calls processCleanupItems, whose actions (above) then run;    *)
(* when they are done the strategy returns and RunE prints and returns.    *)
(***************************************************************************)
\* A present file of every size and of the given ages.
FileNodes(ages) ==
    {[st |-> "present", size |-> s, kind |-> "file", age |-> a] : s \in Sizes \ {0}, a \in ages}

DeniedNode == [st |-> "denied", size |-> 0, kind |-> "file", age |-> 0]

\* A filesystem with its directories in place and the given leaves as
\* given; every other leaf is absent.
Filesystem(leaves) ==
    [p \in WorldPaths |->
        IF p \in DOMAIN leaves THEN leaves[p]
        ELSE IF p \in Directories THEN DirectoryNode
        ELSE AbsentNode]

\* What the flags and the environment leave open before a run.
InitRun ==
    /\ dryRunFlag \in BOOLEAN
    /\ interactiveFlag \in BOOLEAN
    /\ showWarnings \in BOOLEAN
    /\ showDetails \in BOOLEAN
    /\ home = UserHome
    /\ wipePc = "start"
    /\ runErr = "nil"
    /\ reclaimed = 0
    /\ logged = <<>>
    /\ items = <<>>
    /\ dryRun = FALSE
    /\ interactive = FALSE
    /\ isApp = FALSE
    /\ estimatedSummary = NewSummaryTable
    /\ summary = NewSummaryTable
    /\ pc = "idle"
    /\ i = 1
    /\ aggregatedForTable = <<>>
    /\ actualRemovedSize = 0
    /\ totalReclaimed = 0
    /\ err = "nil"
    /\ answers = <<>>
    /\ lastInput = ""
    /\ removeCalls = <<>>
    /\ targetPath = <<>>
    /\ cpPc = "idle"
    /\ cpResult = FALSE
    /\ argPath = <<>>
    /\ argRoots = <<>>
    /\ retDisplayPath = <<>>
    /\ retCategory = ""
    /\ callPc = "idle"
    /\ runsBefore = <<>>

\* The ignore entries of a system cleanup: the caches directory and one
\* file in it, each in its three spellings, a temp directory and the root.
SystemIgnoreEntries ==
    LET under == {JoinSlash(<<strLibrary, strCaches>>),
                  JoinSlash(<<strLibrary, strCaches, <<"x">>>>)}
    IN  UNION {{strTildeSlash \o x, DollarHome \o <<"/">> \o x, UserHome \o <<"/">> \o x} :
                  x \in under}
            \cup {strTmp, <<"/">>}

\* wipe, with no name and no --large-files.
InitSystem ==
    /\ InitRun
    /\ largeFilesFlag = FALSE
    /\ args = <<>>
    /\ ignorePaths \in SeqsUpTo(SystemIgnoreEntries, MaxWipeIgnore)
    /\ \E cx \in {AbsentNode, DeniedNode} \cup FileNodes({0}),
          cf \in {AbsentNode} \cup FileNodes({0}),
          ty \in {AbsentNode} \cup FileNodes({23, 24}) :
          fs = Filesystem((CachesX :> cx) @@ (CachesFoo :> cf) @@ (TmpY :> ty))

\* CleanSystem handing the --interactive flag on to processCleanupItems.
CleanSystem_Interactive ==
    /\ wipePc = "start"
    /\ ~largeFilesFlag
    /\ Len(args) = 0
    /\ LET scan == CleanSystemScan(fs, ignorePaths, home, showWarnings)
       IN  /\ items' = scan.items
           /\ logged' = logged \o scan.logged
    /\ dryRun' = dryRunFlag
    /\ interactive' = interactiveFlag
    /\ isApp' = FALSE
    /\ pc' = "call"
    /\ wipePc' = "CleanSystem"
    /\ UNCHANGED <<fs, estimatedSummary, summary, i, aggregatedForTable, actualRemovedSize,
                   totalReclaimed, err, answers, lastInput, removeCalls>>
    /\ UNCHANGED <<largeFilesFlag, args, dryRunFlag, interactiveFlag, showWarnings,
                   showDetails, runErr, reclaimed>>
    /\ UNCHANGED <<ignoreVars, restVars>>

\* Case 3 of RunE: CleanSystem, up to and including its call of
\* processCleanupItems (never interactive, never in application mode).
CleanSystem ==
    /\ wipePc = "start"
    /\ ~largeFilesFlag
    /\ Len(args) = 0
    /\ LET scan == CleanSystemScan(fs, ignorePaths, home, showWarnings)
       IN  /\ items' = scan.items
           /\ logged' = logged \o scan.logged
    /\ dryRun' = dryRunFlag
    /\ interactive' = FALSE
    /\ isApp' = FALSE
    /\ pc' = "call"
    /\ wipePc' = "CleanSystem"
    /\ UNCHANGED <<fs, estimatedSummary, summary, i, aggregatedForTable, actualRemovedSize,
                   totalReclaimed, err, answers, lastInput, removeCalls>>
    /\ UNCHANGED <<largeFilesFlag, args, dryRunFlag, interactiveFlag, showWarnings,
                   showDetails, runErr, reclaimed>>
    /\ UNCHANGED <<ignoreVars, restVars>>

\* processCleanupItems has returned: the strategy hands its total on (or
\* wraps its error), RunE prints the actual table and returns.
RunEReturn ==
    /\ wipePc \in {"CleanSystem", "UninstallApplication", "CleanLargeFiles"}
    /\ pc = "done"
    /\ IF err = "nil"
       THEN reclaimed' = totalReclaimed /\ runErr' = "nil"
       ELSE reclaimed' = 0 /\ runErr' = "failed"
    /\ wipePc' = "done"
    /\ UNCHANGED <<largeFilesFlag, args, dryRunFlag, interactiveFlag, showWarnings,
                   showDetails, logged>>
    /\ UNCHANGED <<engineVars, ignoreVars, restVars>>

NextSystem ==
    \/ CleanSystem
    \/ ReturnEmpty
    \/ Aggregate
    \/ SelectMode
    \/ DryRunReturn
    \/ BatchConfirm
    \/ BatchItem
    \/ ReturnReclaimed
    \/ RunEReturn

SpecSystem == InitSystem /\ [][NextSystem]_vars

(***************************************************************************)
(* The classifier of large files, categorizeLargeFilePath, under HOME = h. *)
(* os.UserHomeDir fails exactly when HOME is empty.                        *)
(***************************************************************************)
\* strings.Contains of any of the patterns.
ContainsAny(s, patterns) == \E k \in 1..Len(patterns) : Contains(s, patterns[k])

HasAnyPrefix(s, prefixes) == \E k \in 1..Len(prefixes) : HasPrefix(s, prefixes[k])

\* path with a leading home directory replaced by "~" (lines 170-173).
NormalizedPath(path, h) ==
    IF HasPrefix(path, h) THEN ReplaceFirst(path, h, strTilde) ELSE path

BrowserPatterns ==
    <<strBrowserChromeSupport, strBrowserChromeCaches, strBrowserBrave, strBrowserSafari,
      strBrowserFirefox>>

DeveloperMarkers ==
    <<strDotRustup, strDotNpm, strDotGradle, strXcodeDeviceSupport, strAndroidSdk,
      strJetBrains>>

\* The classifier with the developer-tool markers tested first.
categorizeLargeFilePath_MarkersFirst(path, h) ==
    LET normalizedPath == NormalizedPath(path, h)
    IN  IF h = <<>>
        THEN IF HasPrefix(path, strPrivateVar) \/ HasPrefix(path, strTmp)
             THEN "System Temporary Files"
             ELSE "Other Large Files"
        ELSE IF ContainsAny(normalizedPath, DeveloperMarkers)
        THEN "Developer Tool Caches/Data"
        ELSE IF ContainsAny(normalizedPath, BrowserPatterns) THEN "Browser Caches"
        ELSE IF HasPrefix(normalizedPath, strTildeDownloads) THEN "User Downloads"
        ELSE IF HasPrefix(normalizedPath, strTildeDocuments) THEN "User Documents"
        ELSE IF HasPrefix(normalizedPath, strTildeLibrary) THEN "Other User Library Files"
        ELSE IF HasPrefix(normalizedPath, strTildeSlash) THEN "User Home Files"
        ELSE "Other Large Files"

categorizeLargeFilePath(path, h) ==
    LET normalizedPath == NormalizedPath(path, h)
    IN  IF h = <<>>
        THEN IF HasPrefix(path, strPrivateVar) \/ HasPrefix(path, strTmp)
             THEN "System Temporary Files"
             ELSE "Other Large Files"
        ELSE IF ContainsAny(normalizedPath, BrowserPatterns) THEN "Browser Caches"
        ELSE IF HasPrefix(normalizedPath, strTildeDownloads) THEN "User Downloads"
        ELSE IF HasPrefix(normalizedPath, strTildeDocuments) THEN "User Documents"
        ELSE IF HasPrefix(normalizedPath, strTildeApplicationSupport)
        THEN "Application Support Files"
        ELSE IF HasPrefix(normalizedPath, strTildeCaches) THEN "User Caches"
        ELSE IF HasPrefix(normalizedPath, strTildeContainers) THEN "User Container Data"
        ELSE IF HasPrefix(normalizedPath, strTildeGroupContainers)
        THEN "User Group Container Data"
        ELSE IF HasPrefix(normalizedPath, strTildeMessages) THEN "Messages Attachments"
        ELSE IF HasPrefix(normalizedPath, strTildeSpotlight) THEN "Spotlight Metadata"
        ELSE IF HasPrefix(normalizedPath, strTildeLibrary) THEN "Other User Library Files"
        ELSE IF HasAnyPrefix(path, <<strPrivateVarFolders, strPrivateVarTmp, strTmp>>)
        THEN "System Temporary Files"
        ELSE IF ContainsAny(normalizedPath, DeveloperMarkers)
        THEN "Developer Tool Caches/Data"
        ELSE IF HasPrefix(normalizedPath, strTildeSlash) THEN "User Home Files"
        ELSE IF HasAnyPrefix(path, <<strVar, strUsr, strOpt>>) THEN "System Files"
        ELSE "Other Large Files"

(***************************************************************************)
(* The large-file scan of CleanLargeFiles: filepath.Walk over five roots.  *)
(***************************************************************************)
largeFileThreshold == 100 * 1024 * 1024

\* utils.IsPathIgnored: ContainsPath under another name.
IsPathIgnored(p, ignored, h) == ContainsPath(p, ignored, h)

BlockSize == 512

\* A regular file of b allocated blocks whose logical length is n bytes.
FileOfBlocks(b, n) ==
    [st |-> "present", size |-> n, kind |-> "file", age |-> 0, blocks |-> b]

\* A symbolic link: Lstat describes the link itself, which holds no block.
SymlinkNode == [st |-> "present", size |-> 1, kind |-> "symlink", age |-> 0, blocks |-> 0]

\* A file of a filesystem that reports no block data: info.Sys() is no
\* *syscall.Stat_t.
FileWithoutBlockData(n) == [st |-> "present", size |-> n, kind |-> "file", age |-> 0]

\* The children of every directory, in the lexical order of readDirNames.
ChildrenOf ==
    [p \in WorldPaths |->
        SelectSeq(WorldOrder,
                  LAMBDA c : /\ HasPrefix(c, p \o <<"/">>)
                             /\ ~Contains(SubSeq(c, Len(p) + 2, Len(c)), <<"/">>))]

dirsToScan(h) ==
    <<ExpandPath(strUsers, h), ExpandPath(strPrivateVarFolders, h),
      ExpandPath(strPrivateTmp, h), ExpandPath(strHomeDownloads, h),
      ExpandPath(strHomeDocuments, h)>>

\* The built-in entry, then every entry of the operator made absolute.
cleanedIgnorePaths(ignore, h) ==
    <<ExpandPath(strHomeApplications, h)>>
        \o [k \in 1..Len(ignore) |-> Abs(ExpandPath(ignore[k], h))]

\* The size test on the logical length of the file.
ActualSize_Logical(info) == info.size

\* stat.Blocks * 512, or info.Size() without block data (lines 100-106).
ActualSize(info) ==
    IF "blocks" \in DOMAIN info THEN info.blocks * BlockSize ELSE info.size

\* The system directories the walk does not enter (line 92).
DenyListed(path) ==
    \/ path \in {strSystem, strSlashLibrary, strUsr, strSlashApplications}
    \/ HasPrefix(path, strDeveloper)

NothingWalked ==
    [items |-> <<>>, suppressedWarnings |-> FALSE, logged |-> <<>>, visited |-> <<>>]

\* The walk function going on into an ignored directory.
WalkFn_DescendsIntoIgnored(acc, path, f, ignored, h, sw, sd) ==
    LET seen == [acc EXCEPT !.visited = Append(@, path)]
    IN  IF ~StatOk(f, path)
        THEN [acc |-> PathWarning(seen, sw, "Error accessing path", path), skip |-> FALSE]
        ELSE IF IsPathIgnored(path, ignored, h)
        THEN [acc |-> seen, skip |-> FALSE]
        ELSE IF f[path].kind = "dir"
        THEN [acc |-> seen, skip |-> DenyListed(path)]
        ELSE IF ActualSize(f[path]) >= largeFileThreshold
        THEN [acc |-> [seen EXCEPT
                         !.items = Append(@, [Path |-> path,
                                              Size |-> ActualSize(f[path]),
                                              Category |-> categorizeLargeFilePath(path, h),
                                              ActualPath |-> path]),
                         !.logged = IF sd
                                    THEN Append(@, [msg |-> "Found large file", path |-> path])
                                    ELSE @],
              skip |-> FALSE]
        ELSE [acc |-> seen, skip |-> FALSE]

\* The walk function emitting a file only when it reports it.
WalkFn_EmitsWhatItReports(acc, path, f, ignored, h, sw, sd) ==
    LET seen == [acc EXCEPT !.visited = Append(@, path)]
    IN  IF ~StatOk(f, path)
        THEN [acc |-> PathWarning(seen, sw, "Error accessing path", path), skip |-> FALSE]
        ELSE IF IsPathIgnored(path, ignored, h)
        THEN [acc |-> seen, skip |-> f[path].kind = "dir"]
        ELSE IF f[path].kind = "dir"
        THEN [acc |-> seen, skip |-> DenyListed(path)]
        ELSE IF ActualSize(f[path]) >= largeFileThreshold /\ sd
        THEN [acc |-> [seen EXCEPT
                         !.items = Append(@, [Path |-> path,
                                              Size |-> ActualSize(f[path]),
                                              Category |-> categorizeLargeFilePath(path, h),
                                              ActualPath |-> path]),
                         !.logged = Append(@, [msg |-> "Found large file", path |-> path])],
              skip |-> FALSE]
        ELSE [acc |-> seen, skip |-> FALSE]

\* The walk function (lines 70-125) called on path: what it adds to the
\* scan, and whether it returns filepath.SkipDir.  It is called with an
\* error exactly when Lstat of path failed.
WalkFn(acc, path, f, ignored, h, sw, sd) ==
    LET seen == [acc EXCEPT !.visited = Append(@, path)]
    IN  IF ~StatOk(f, path)
        THEN [acc |-> PathWarning(seen, sw, "Error accessing path", path), skip |-> FALSE]
        ELSE IF IsPathIgnored(path, ignored, h)
        THEN [acc |-> seen, skip |-> f[path].kind = "dir"]
        ELSE IF f[path].kind = "dir"
        THEN [acc |-> seen, skip |-> DenyListed(path)]
        ELSE IF ActualSize(f[path]) >= largeFileThreshold
        THEN [acc |-> [seen EXCEPT
                         !.items = Append(@, [Path |-> path,
                                              Size |-> ActualSize(f[path]),
                                              Category |-> categorizeLargeFilePath(path, h),
                                              ActualPath |-> path]),
                         !.logged = IF sd
                                    THEN Append(@, [msg |-> "Found large file", path |-> path])
                                    ELSE @],
              skip |-> FALSE]
        ELSE [acc |-> seen, skip |-> FALSE]

\* filepath.walk on a node Lstat succeeded on, and on the names of a
\* directory: a name Lstat fails on is handed to the walk function with
\* the error, the others are walked in turn.
RECURSIVE WalkNode(_, _, _, _, _, _, _)
RECURSIVE WalkNames(_, _, _, _, _, _, _)
WalkNode(acc, path, f, ignored, h, sw, sd) ==
    LET called == WalkFn(acc, path, f, ignored, h, sw, sd)
    IN  IF f[path].kind # "dir" \/ called.skip THEN called.acc
        ELSE WalkNames(called.acc,
                       SelectSeq(ChildrenOf[path], LAMBDA c : Listed(f, c)),
                       f, ignored, h, sw, sd)

WalkNames(acc, names, f, ignored, h, sw, sd) ==
    IF names = <<>> THEN acc
    ELSE WalkNames(IF StatOk(f, Head(names))
                   THEN WalkNode(acc, Head(names), f, ignored, h, sw, sd)
                   ELSE WalkFn(acc, Head(names), f, ignored, h, sw, sd).acc,
                   Tail(names), f, ignored, h, sw, sd)

\* filepath.Walk(dir, fn).  The walk function returns nil or SkipDir only,
\* so Walk returns nil and lines 127-133 never run.
Walk(acc, dir, f, ignored, h, sw, sd) ==
    IF StatOk(f, dir) THEN WalkNode(acc, dir, f, ignored, h, sw, sd)
    ELSE WalkFn(acc, dir, f, ignored, h, sw, sd).acc

RECURSIVE WalkAll(_, _, _, _, _, _, _)
WalkAll(acc, dirs, f, ignored, h, sw, sd) ==
    IF dirs = <<>> THEN acc
    ELSE WalkAll(Walk(acc, Head(dirs), f, ignored, h, sw, sd), Tail(dirs), f, ignored, h,
                 sw, sd)

\* CleanLargeFiles up to its call of processCleanupItems.
CleanLargeFilesScan(f, ignore, h, sw, sd) ==
    SuppressedHint(WalkAll(NothingWalked, dirsToScan(h), f, cleanedIgnorePaths(ignore, h),
                           h, sw, sd))

\* The ignore entries of a large-file scan: a scanned directory in a home
\* spelling, a scanned root, one file, and the root directory.
LargeIgnoreEntries == {strTildeDownloads, strPrivateTmp, DownloadsBig, <<"/">>}

\* Files at the threshold and one block below it; a sparse file, whose
\* logical length reaches the threshold while its allocation does not.
ThresholdFiles ==
    {FileOfBlocks(largeFileThreshold \div BlockSize, largeFileThreshold),
     FileOfBlocks(largeFileThreshold \div BlockSize - 1, largeFileThreshold - BlockSize),
     FileOfBlocks(largeFileThreshold \div BlockSize - 1, largeFileThreshold)}

\* wipe --large-files, with or without a name.
InitLarge ==
    /\ InitRun
    /\ largeFilesFlag = TRUE
    /\ args \in {<<>>} \cup {<<n>> : n \in AppNames}
    /\ ignorePaths \in SeqsUpTo(LargeIgnoreEntries, MaxWipeIgnore)
    /\ \E db \in {AbsentNode, DeniedNode, SymlinkNode,
                  FileWithoutBlockData(largeFileThreshold)} \cup ThresholdFiles,
          pz \in {AbsentNode, FileOfBlocks(largeFileThreshold \div BlockSize,
                                           largeFileThreshold)} :
          fs = Filesystem((DownloadsBig :> db) @@ (PrivateTmpZ :> pz))

\* RunE going on to the scan although a name was given.
RunE_ScansDespiteName ==
    /\ wipePc = "start"
    /\ largeFilesFlag
    /\ Len(args) > 0
    /\ LET scan == CleanLargeFilesScan(fs, ignorePaths, home, showWarnings, showDetails)
       IN  /\ items' = scan.items
           /\ logged' = logged \o scan.logged
    /\ dryRun' = dryRunFlag
    /\ interactive' = interactiveFlag
    /\ isApp' = FALSE
    /\ pc' = "call"
    /\ wipePc' = "CleanLargeFiles"
    /\ UNCHANGED <<fs, estimatedSummary, summary, i, aggregatedForTable, actualRemovedSize,
                   totalReclaimed, err, answers, lastInput, removeCalls>>
    /\ UNCHANGED <<largeFilesFlag, args, dryRunFlag, interactiveFlag, showWarnings,
                   showDetails, runErr, reclaimed>>
    /\ UNCHANGED <<ignoreVars, restVars>>

\* Case 1 of RunE with a name: the validation error (lines 103-105).
RunEConflict ==
    /\ wipePc = "start"
    /\ largeFilesFlag
    /\ Len(args) > 0
    /\ runErr' = "the --large-files flag cannot be used with an application name"
    /\ wipePc' = "done"
    /\ UNCHANGED <<largeFilesFlag, args, dryRunFlag, interactiveFlag, showWarnings,
                   showDetails, reclaimed, logged>>
    /\ UNCHANGED <<engineVars, ignoreVars, restVars>>

\* Case 1 of RunE: CleanLargeFiles, up to and including its call of
\* processCleanupItems (interactive as the flag says, never in application
\* mode).
CleanLargeFiles ==
    /\ wipePc = "start"
    /\ largeFilesFlag
    /\ Len(args) = 0
    /\ LET scan == CleanLargeFilesScan(fs, ignorePaths, home, showWarnings, showDetails)
       IN  /\ items' = scan.items
           /\ logged' = logged \o scan.logged
    /\ dryRun' = dryRunFlag
    /\ interactive' = interactiveFlag
    /\ isApp' = FALSE
    /\ pc' = "call"
    /\ wipePc' = "CleanLargeFiles"
    /\ UNCHANGED <<fs, estimatedSummary, summary, i, aggregatedForTable, actualRemovedSize,
                   totalReclaimed, err, answers, lastInput, removeCalls>>
    /\ UNCHANGED <<largeFilesFlag, args, dryRunFlag, interactiveFlag, showWarnings,
                   showDetails, runErr, reclaimed>>
    /\ UNCHANGED <<ignoreVars, restVars>>

NextLarge ==
    \/ RunEConflict
    \/ CleanLargeFiles
    \/ ReturnEmpty
    \/ Aggregate
    \/ SelectMode
    \/ DryRunReturn
    \/ InteractiveItem
    \/ BatchConfirm
    \/ BatchItem
    \/ ReturnReclaimed
    \/ RunEReturn

SpecLarge == InitLarge /\ [][NextLarge]_vars

(***************************************************************************)
(* Two functions of the scans called on their own: the choice of the       *)
(* display path in CleanSystem, for any list of aggregation roots, and the *)
(* classifier of large files, for any path.                                *)
(***************************************************************************)
\* No command is running: everything but HOME and the call is at rest.
NothingRunning ==
    /\ targetPath = <<>>
    /\ ignorePaths = <<>>
    /\ cpPc = "idle"
    /\ cpResult = FALSE
    /\ items = <<>>
    /\ dryRun = FALSE
    /\ interactive = FALSE
    /\ isApp = FALSE
    /\ fs = Filesystem(<<>>)
    /\ estimatedSummary = NewSummaryTable
    /\ summary = NewSummaryTable
    /\ pc = "idle"
    /\ i = 1
    /\ aggregatedForTable = <<>>
    /\ actualRemovedSize = 0
    /\ totalReclaimed = 0
    /\ err = "nil"
    /\ answers = <<>>
    /\ lastInput = ""
    /\ removeCalls = <<>>
    /\ largeFilesFlag = FALSE
    /\ args = <<>>
    /\ dryRunFlag = FALSE
    /\ interactiveFlag = FALSE
    /\ showWarnings = FALSE
    /\ showDetails = FALSE
    /\ wipePc = "idle"
    /\ runErr = "nil"
    /\ reclaimed = 0
    /\ logged = <<>>
    /\ runsBefore = <<>>

\* Aggregation roots, two of them nested, and paths below some, one or
\* none of them.
AggregationRoots == {DirLibrary, DirCaches, strTmp}

AggregatedPaths == {CachesX, DownloadsBig, TmpY, PrivateTmpZ}

InitDisplayPath ==
    /\ NothingRunning
    /\ home = UserHome
    /\ argPath \in AggregatedPaths
    /\ argRoots \in SeqsUpTo(AggregationRoots, MaxRoots)
    /\ retDisplayPath = <<>>
    /\ retCategory = ""
    /\ callPc = "call"

\* Lines 95-101 of CleanSystem for one match and one target.
DisplayPathCall ==
    /\ callPc = "call"
    /\ retDisplayPath' = DisplayPath(argPath, argRoots)
    /\ callPc' = "done"
    /\ UNCHANGED <<argPath, argRoots, retCategory>>
    /\ UNCHANGED <<engineVars, ignoreVars, wipeVars, runsBefore>>

NextDisplayPath == DisplayPathCall

SpecDisplayPath == InitDisplayPath /\ [][NextDisplayPath]_vars

\* The paths given to the classifier: a file, directly or below a
\* directory named after a developer tool, under each directory the rules
\* name and under some they do not.
ClassifiedDirectories(h) ==
    LET hd == IF h = <<>> THEN UserHome ELSE h
        under(rel) == hd \o SubSeq(rel, 2, Len(rel))
    IN  {under(strBrowserChromeSupport), under(strBrowserChromeCaches),
         under(strBrowserBrave), under(strBrowserSafari), under(strBrowserFirefox),
         under(strTildeDownloads), under(strTildeDocuments),
         under(strTildeApplicationSupport), under(strTildeCaches),
         under(strTildeContainers), under(strTildeGroupContainers),
         under(strTildeMessages), under(strTildeSpotlight), under(strTildeLibrary),
         hd, hd \o <<"x">>,
         strPrivateVarFolders, strPrivateVarTmp, strTmp, strPrivateTmp,
         strPrivateVar \o <<"/", "d", "b">>,
         strVar, strUsr, strOpt, strSlashApplications}

ClassifiedTails ==
    {<<"/", "f">>, <<"/">> \o strDotNpm \o <<"/", "f">>,
     <<"/">> \o strJetBrains \o <<"/", "f">>}

ClassifiedPaths == {d \o t : d \in ClassifiedDirectories(UserHome), t \in ClassifiedTails}

InitClassifier ==
    /\ NothingRunning
    /\ home \in HomeDirs
    /\ argPath \in ClassifiedPaths
    /\ argRoots = <<>>
    /\ retDisplayPath = <<>>
    /\ retCategory = ""
    /\ callPc = "call"

categorizeLargeFilePathCall ==
    /\ callPc = "call"
    /\ retCategory' = categorizeLargeFilePath(argPath, home)
    /\ callPc' = "done"
    /\ UNCHANGED <<argPath, argRoots, retDisplayPath>>
    /\ UNCHANGED <<engineVars, ignoreVars, wipeVars, runsBefore>>

NextClassifier == categorizeLargeFilePathCall

SpecClassifier == InitClassifier /\ [][NextClassifier]_vars

(***************************************************************************)
(* The application scan of UninstallApplication, and the confirmation      *)
(* RunE asks for before it.                                                *)
(***************************************************************************)
\* The matches of every pattern, one after the other.
RECURSIVE GlobAll(_, _)
GlobAll(patterns, f) ==
    IF patterns = <<>> THEN <<>> ELSE Glob(Head(patterns), f) \o GlobAll(Tail(patterns), f)

\* Without duplicates and sorted by sort.Strings: WorldOrder is that order.
SortedUnique(found) ==
    SelectSeq(WorldOrder, LAMBDA p : \E k \in 1..Len(found) : found[k] = p)

\* utils.FindPaths: the matches of name below every base path and, for a
\* name ending in ".app" when the home directory resolves, the leftover
\* locations that exist.
FindPaths(basePaths, name, f, h) ==
    LET bundles == GlobAll([k \in 1..Len(basePaths) |-> JoinAll(<<basePaths[k], name>>)], f)
        data    == IF HasSuffix(name, strDotApp) /\ h # <<>>
                   THEN SelectSeq(GlobAll(appDataPaths(h, TrimSuffix(name, strDotApp)), f),
                                  LAMBDA m : StatOk(f, m))
                   ELSE <<>>
    IN  SortedUnique(bundles \o data)

\* One candidate for every path of found that is not ignored and can be
\* measured, all of them in the given category.
RECURSIVE AppCandidates(_, _, _, _, _)
AppCandidates(found, cat, f, ignore, h) ==
    IF found = <<>> THEN <<>>
    ELSE LET m  == Head(found)
             sz == GetFileSizeInBytes(f, m)
         IN  (IF StatOk(f, m) /\ ~IsPathIgnored(m, ignore, h) /\ ~sz.err
              THEN <<[Path |-> m, Size |-> sz.size, Category |-> cat, ActualPath |-> m]>>
              ELSE <<>>)
                 \o AppCandidates(Tail(found), cat, f, ignore, h)

\* UninstallApplication up to line 116: the candidates of the bundle
\* search, then those of the leftover search.
UninstallApplicationScan(appName, f, ignore, h) ==
    LET name        == NormalizeAppName(appName)
        baseAppName == TrimSuffix(name, strDotApp)
        appBundlePaths == FindPaths(appInstallPaths(h), name, f, h)
        leftoverSearchPatterns == appDataPaths(h, baseAppName)
    IN  [name |-> name,
         patterns |-> leftoverSearchPatterns,
         items |-> AppCandidates(appBundlePaths, "Application Bundle", f, ignore, h)
                       \o AppCandidates(GlobAll(leftoverSearchPatterns, f),
                                        "Application Leftover", f, ignore, h)]

\* The ignore entries of an uninstallation: the bundle, the install root
\* and the caches directory of the user.
AppIgnoreEntries == {FooBundle, strSlashApplications, strTildeCaches}

\* wipe <name>, without --large-files.
InitApp ==
    /\ InitRun
    /\ largeFilesFlag = FALSE
    /\ args \in {<<n>> : n \in AppNames}
    /\ ignorePaths \in SeqsUpTo(AppIgnoreEntries, MaxWipeIgnore)
    /\ \E fb \in {AbsentNode} \cup FileNodes({0}),
          cf \in {AbsentNode, DeniedNode} \cup FileNodes({0}) :
          fs = Filesystem((FooBundle :> fb) @@ (CachesFoo :> cf))

\* Case 2 of RunE, lines 117-136: the operator is asked, in a dry run too,
\* whether to uninstall; "no" makes RunE return an error.
UninstallConfirm ==
    /\ wipePc = "start"
    /\ ~largeFilesFlag
    /\ Len(args) = 1
    /\ \E line \in RawLines :
          LET c == ConfirmAction(line)
          IN  CASE c.answer = "yes" ->
                    /\ answers' = Append(answers, TRUE)
                    /\ lastInput' = c.input
                    /\ wipePc' = "confirmed"
                    /\ UNCHANGED runErr
                [] c.answer = "no" ->
                    /\ answers' = Append(answers, FALSE)
                    /\ lastInput' = c.input
                    /\ wipePc' = "done"
                    /\ runErr' = "aborting uninstallation"
                [] c.answer = "again" ->
                    UNCHANGED <<answers, lastInput, wipePc, runErr>>
    /\ UNCHANGED <<items, dryRun, interactive, isApp, fs, estimatedSummary, summary, pc, i,
                   aggregatedForTable, actualRemovedSize, totalReclaimed, err, removeCalls>>
    /\ UNCHANGED <<largeFilesFlag, args, dryRunFlag, interactiveFlag, showWarnings,
                   showDetails, reclaimed, logged>>
    /\ UNCHANGED <<ignoreVars, restVars>>

\* UninstallApplication: with nothing found it returns 0 and nil at once
\* (lines 118-121), otherwise it calls processCleanupItems in application
\* mode, never interactive.
UninstallApplication ==
    /\ wipePc = "confirmed"
    /\ LET scan == UninstallApplicationScan(args[1], fs, ignorePaths, home)
       IN  /\ items' = scan.items
           /\ pc' = IF scan.items = <<>> THEN "done" ELSE "call"
    /\ dryRun' = dryRunFlag
    /\ interactive' = FALSE
    /\ isApp' = TRUE
    /\ wipePc' = "UninstallApplication"
    /\ UNCHANGED <<fs, estimatedSummary, summary, i, aggregatedForTable, actualRemovedSize,
                   totalReclaimed, err, answers, lastInput, removeCalls>>
    /\ UNCHANGED <<largeFilesFlag, args, dryRunFlag, interactiveFlag, showWarnings,
                   showDetails, runErr, reclaimed, logged>>
    /\ UNCHANGED <<ignoreVars, restVars>>

NextApp ==
    \/ UninstallConfirm
    \/ UninstallApplication
    \/ Aggregate
    \/ SelectMode
    \/ DryRunReturn
    \/ AppItem
    \/ ReturnReclaimed
    \/ RunEReturn

SpecApp == InitApp /\ [][NextApp]_vars

(***************************************************************************)
(* The command run twice: once it has returned, it is started again on the *)
(* same filesystem with the same flags and ignore list, and with the two   *)
(* verbosity toggles of the environment set differently.                   *)
(***************************************************************************)
\* What a run has produced so far.
Outcome ==
    [items |-> items,
     aggregatedForTable |-> aggregatedForTable,
     answers |-> answers,
     removeCalls |-> removeCalls,
     estimatedSummary |-> estimatedSummary,
     summary |-> summary,
     reclaimed |-> reclaimed,
     runErr |-> runErr,
     logged |-> logged]

\* The ignore entries of these runs: a large file and the caches directory.
ToggleIgnoreEntries == {DownloadsBig, strTildeCaches}

\* wipe and wipe --large-files, over a cache entry and a large download,
\* each readable or not, and a large temp file.
InitToggles ==
    /\ InitRun
    /\ largeFilesFlag \in BOOLEAN
    /\ args = <<>>
    /\ ignorePaths \in SeqsUpTo(ToggleIgnoreEntries, MaxWipeIgnore)
    /\ \E cx \in {DeniedNode, [st |-> "present", size |-> 1, kind |-> "file", age |-> 0]},
          db \in {DeniedNode,
                  FileOfBlocks(largeFileThreshold \div BlockSize, largeFileThreshold)} :
          fs = Filesystem((CachesX :> cx) @@ (DownloadsBig :> db)
                              @@ (PrivateTmpZ :> FileOfBlocks(largeFileThreshold \div BlockSize,
                                                              largeFileThreshold)))

\* RunE has returned; the command is started again with other toggles.
RunAgain ==
    /\ wipePc = "done"
    /\ runsBefore = <<>>
    /\ runsBefore' = <<Outcome>>
    /\ \E sw \in BOOLEAN, sd \in BOOLEAN :
          /\ <<sw, sd>> # <<showWarnings, showDetails>>
          /\ showWarnings' = sw
          /\ showDetails' = sd
    /\ wipePc' = "start"
    /\ runErr' = "nil"
    /\ reclaimed' = 0
    /\ logged' = <<>>
    /\ items' = <<>>
    /\ dryRun' = FALSE
    /\ interactive' = FALSE
    /\ isApp' = FALSE
    /\ estimatedSummary' = NewSummaryTable
    /\ summary' = NewSummaryTable
    /\ pc' = "idle"
    /\ i' = 1
    /\ aggregatedForTable' = <<>>
    /\ actualRemovedSize' = 0
    /\ totalReclaimed' = 0
    /\ err' = "nil"
    /\ answers' = <<>>
    /\ lastInput' = ""
    /\ removeCalls' = <<>>
    /\ UNCHANGED <<fs, largeFilesFlag, args, dryRunFlag, interactiveFlag>>
    /\ UNCHANGED <<ignoreVars, pureVars>>

NextToggles ==
    \/ CleanSystem
    \/ CleanLargeFiles
    \/ ReturnEmpty
    \/ Aggregate
    \/ SelectMode
    \/ DryRunReturn
    \/ InteractiveItem
    \/ BatchConfirm
    \/ BatchItem
    \/ ReturnReclaimed
    \/ RunEReturn
    \/ RunAgain

SpecToggles == InitToggles /\ [][NextToggles]_vars

(***************************************************************************)
(* A dry run made twice: once the command has returned it is started again *)
(* with the same flags, ignore list and environment, on the filesystem the *)
(* first run left, with two fresh ledgers.                                 *)
(***************************************************************************)
\* A file of one byte, just written.
SmallFile == [st |-> "present", size |-> 1, kind |-> "file", age |-> 0]

\* The ignore entries of these runs.
DryRunIgnoreEntries == {DownloadsBig, strTildeCaches}

\* wipe --dry-run, wipe --dry-run --large-files and wipe --dry-run Foo.
InitDryRuns ==
    /\ InitRun
    /\ dryRunFlag
    /\ \E strategy \in {"system", "large", "app"} :
          /\ largeFilesFlag = (strategy = "large")
          /\ args = IF strategy = "app" THEN <<FooName>> ELSE <<>>
    /\ ignorePaths \in SeqsUpTo(DryRunIgnoreEntries, MaxWipeIgnore)
    /\ \E cx \in {DeniedNode, SmallFile},
          cf \in {AbsentNode, DeniedNode, SmallFile},
          fb \in {AbsentNode, SmallFile},
          db \in {AbsentNode,
                  FileOfBlocks(largeFileThreshold \div BlockSize, largeFileThreshold)} :
          fs = Filesystem((CachesX :> cx) @@ (CachesFoo :> cf) @@ (FooBundle :> fb)
                              @@ (DownloadsBig :> db))

\* RunE has returned; the same command is started again.
RunRepeated ==
    /\ wipePc = "done"
    /\ runsBefore = <<>>
    /\ runsBefore' = <<[outcome |-> Outcome, fs |-> fs]>>
    /\ wipePc' = "start"
    /\ runErr' = "nil"
    /\ reclaimed' = 0
    /\ logged' = <<>>
    /\ items' = <<>>
    /\ dryRun' = FALSE
    /\ interactive' = FALSE
    /\ isApp' = FALSE
    /\ estimatedSummary' = NewSummaryTable
    /\ summary' = NewSummaryTable
    /\ pc' = "idle"
    /\ i' = 1
    /\ aggregatedForTable' = <<>>
    /\ actualRemovedSize' = 0
    /\ totalReclaimed' = 0
    /\ err' = "nil"
    /\ answers' = <<>>
    /\ lastInput' = ""
    /\ removeCalls' = <<>>
    /\ UNCHANGED <<fs, largeFilesFlag, args, dryRunFlag, interactiveFlag, showWarnings,
                   showDetails>>
    /\ UNCHANGED <<ignoreVars, pureVars>>

NextDryRuns ==
    \/ CleanSystem
    \/ CleanLargeFiles
    \/ UninstallConfirm
    \/ UninstallApplication
    \/ ReturnEmpty
    \/ Aggregate
    \/ SelectMode
    \/ DryRunReturn
    \/ RunEReturn
    \/ RunRepeated

SpecDryRuns == InitDryRuns /\ [][NextDryRuns]_vars

(***************************************************************************)
(* The large-file scan over a home directory with large files in two       *)
(* directories, some of them unreadable, and a large temp file.            *)
(***************************************************************************)
\* The ignore entries of these scans: a file, its directory, and another
\* directory.
WalkIgnoreEntries == {CachesFoo, DirCaches, strTildeDownloads}

\* A file of exactly the threshold size.
LargeFile == FileOfBlocks(largeFileThreshold \div BlockSize, largeFileThreshold)

\* wipe --large-files --dry-run.
InitWalk ==
    /\ InitRun
    /\ dryRunFlag
    /\ ~interactiveFlag
    /\ largeFilesFlag = TRUE
    /\ args = <<>>
    /\ ignorePaths \in SeqsUpTo(WalkIgnoreEntries, MaxWipeIgnore)
    /\ \E cf \in {AbsentNode, DeniedNode, LargeFile},
          cx \in {AbsentNode, DeniedNode, LargeFile},
          db \in {AbsentNode, DeniedNode, LargeFile},
          pz \in {AbsentNode, LargeFile} :
          fs = Filesystem((CachesFoo :> cf) @@ (CachesX :> cx) @@ (DownloadsBig :> db)
                              @@ (PrivateTmpZ :> pz))

NextWalk ==
    \/ CleanLargeFiles
    \/ ReturnEmpty
    \/ Aggregate
    \/ SelectMode
    \/ DryRunReturn
    \/ RunEReturn

SpecWalk == InitWalk /\ [][NextWalk]_vars

(***************************************************************************)
(* The wipe command in its three strategies: wipe, wipe --large-files and  *)
(* wipe <name>, with every combination of --dry-run and --interactive.     *)
(***************************************************************************)
InitWipe ==
    /\ InitRun
    /\ \E strategy \in {"system", "large", "app"} :
          /\ largeFilesFlag = (strategy = "large")
          /\ args = IF strategy = "app" THEN <<FooName>> ELSE <<>>
    /\ ignorePaths = <<>>
    /\ \E cx \in {DeniedNode, SmallFile},
          cf \in {AbsentNode, SmallFile},
          fb \in {AbsentNode, SmallFile},
          db \in {AbsentNode, LargeFile} :
          fs = Filesystem((CachesX :> cx) @@ (CachesFoo :> cf) @@ (FooBundle :> fb)
                              @@ (DownloadsBig :> db))

NextWipe ==
    \/ CleanSystem
    \/ CleanLargeFiles
    \/ UninstallConfirm
    \/ UninstallApplication
    \/ ReturnEmpty
    \/ Aggregate
    \/ SelectMode
    \/ DryRunReturn
    \/ InteractiveItem
    \/ AppItem
    \/ BatchConfirm
    \/ BatchItem
    \/ ReturnReclaimed
    \/ RunEReturn

SpecWipe == InitWipe /\ [][NextWipe]_vars

(***************************************************************************)
(* The declarative scan over a caches directory that holds the directory   *)
(* TemporaryItems: the patterns of two targets reach into it.              *)
(***************************************************************************)
\* ~/Library/Caches/TemporaryItems holding one file of one byte.
TemporaryItemsDirectory == [st |-> "present", size |-> 1, kind |-> "dir", age |-> 24]

NestedIgnoreEntries == {CachesTemporaryItems, strTildeCaches}

\* wipe, with TemporaryItems missing, empty, or holding a file modified 23
\* or 24 hours ago.
InitNested ==
    /\ InitRun
    /\ largeFilesFlag = FALSE
    /\ args = <<>>
    /\ ignorePaths \in SeqsUpTo(NestedIgnoreEntries, MaxWipeIgnore)
    /\ \E cx \in {AbsentNode, SmallFile},
          ti \in {<<AbsentNode, AbsentNode>>, <<TemporaryItemsDirectory, AbsentNode>>}
                    \cup {<<TemporaryItemsDirectory,
                            [st |-> "present", size |-> 1, kind |-> "file", age |-> a]>> :
                              a \in {23, 24}} :
          fs = Filesystem((CachesX :> cx) @@ (CachesTemporaryItems :> ti[1])
                              @@ (TemporaryItemsT :> ti[2]))

SpecNested == InitNested /\ [][NextSystem]_vars

(***************************************************************************)
(* Vocabulary of the properties.                                           *)
(***************************************************************************)
RECURSIVE SumItemSizes(_)
SumItemSizes(its) ==
    IF its = <<>> THEN 0 ELSE Head(its).Size + SumItemSizes(Tail(its))

\* The sum of the sizes of the removed=true entries of a ledger.
RECURSIVE SumRemoved(_)
SumRemoved(st) ==
    IF st = <<>> THEN 0
    ELSE (IF Head(st).WasRemoved THEN Head(st).SizeReclaimed ELSE 0) + SumRemoved(Tail(st))

\* One entry per candidate, in candidate order, removed=false, discovered size.
EstimateOf(its) ==
    [j \in 1..Len(its) |->
        [Path |-> its[j].ActualPath, SizeReclaimed |-> its[j].Size,
         WasRemoved |-> FALSE, Category |-> its[j].Category]]

ActualPaths(its) == [j \in 1..Len(its) |-> its[j].ActualPath]

\* The entry of a candidate whose removal was tried: on success removed=true
\* with the size measured on disk, on failure removed=false with the
\* discovered size.
AttemptEntry(item) ==
    LET m == GetFileSizeInBytes(fs, item.ActualPath)
    IN  IF m.err
        THEN [Path |-> item.ActualPath, SizeReclaimed |-> item.Size,
              WasRemoved |-> FALSE, Category |-> item.Category]
        ELSE [Path |-> item.ActualPath, SizeReclaimed |-> m.size,
              WasRemoved |-> TRUE, Category |-> item.Category]

\* The entry of a candidate the operator declined.
SkippedEntry(item) ==
    [Path |-> item.ActualPath, SizeReclaimed |-> item.Size,
     WasRemoved |-> FALSE, Category |-> item.Category]

InDryRun      == dryRun
InInteractive == ~dryRun /\ interactive
InAppMode     == ~dryRun /\ ~interactive /\ isApp
InBatchMode   == ~dryRun /\ ~interactive /\ ~isApp

Returned == pc = "done"

(***************************************************************************)
(* C1.  For a non-empty candidate sequence, a dry run calls RemovePath on  *)
(* nothing, leaves the filesystem as it was, asks for no confirmation,     *)
(* leaves the actual ledger empty, and returns the sum of all candidate    *)
(* sizes, which is also the total of the estimated ledger.                 *)
(***************************************************************************)
C1_DryRunState ==
    (InDryRun /\ items # <<>>) =>
        /\ removeCalls = <<>>
        /\ answers = <<>>
        /\ summary = <<>>
        /\ Returned =>
              /\ totalReclaimed = SumItemSizes(items)
              /\ totalReclaimed = TotalReclaimedBytes(estimatedSummary)
              /\ err = "nil"

C1_DryRunEstimates ==
    []C1_DryRunState /\ [][InDryRun => fs' = fs]_vars

C1_Witness ==
    /\ Returned /\ InDryRun /\ Len(items) = 2
    /\ DisplayKey(items[1]) = DisplayKey(items[2])
    /\ totalReclaimed = 2
    /\ fs["/c/x"].st = "present"

(***************************************************************************)
(* C2.  Once step 1 is over, in every mode and whatever the answers and    *)
(* the removal failures, the estimated ledger is one entry per candidate,  *)
(* in candidate order, removed=false, with the discovered size; no later   *)
(* step changes it, so its total is the sum of the discovered sizes.       *)
(***************************************************************************)
C2_EstimatedLedgerComplete ==
    pc # "call" =>
        /\ estimatedSummary = EstimateOf(items)
        /\ TotalReclaimedBytes(estimatedSummary) = SumItemSizes(items)

C2_Witness ==
    /\ Returned /\ InInteractive /\ Len(items) = 2
    /\ answers = <<TRUE, FALSE>>
    /\ ~summary[1].WasRemoved
    /\ items[1].Size = 1 /\ items[2].Size = 0
    /\ estimatedSummary = EstimateOf(items)

(***************************************************************************)
(* C3.  In the default mode, a declined confirmation ends the call with no *)
(* removal tried, a total of 0, no error and an empty actual ledger.       *)
(***************************************************************************)
C3_DeclinedBatchDoesNothing ==
    (InBatchMode /\ answers = <<FALSE>>) =>
        /\ Returned
        /\ removeCalls = <<>>
        /\ summary = <<>>
        /\ totalReclaimed = 0
        /\ err = "nil"

C3_Witness ==
    /\ Returned /\ InBatchMode /\ Len(items) = 2
    /\ answers = <<FALSE>> /\ lastInput = ""
    /\ SumItemSizes(items) = 2

(***************************************************************************)
(* C4.  In the default mode, after an accepted confirmation, every         *)
(* candidate recorded removed=true is gone from the filesystem when the    *)
(* call returns.                                                           *)
(***************************************************************************)
C4_AcceptedBatchDeletes ==
    (Returned /\ InBatchMode /\ answers = <<TRUE>>) =>
        \A j \in 1..Len(summary) :
            summary[j].WasRemoved => fs[summary[j].Path].st = "absent"

(***************************************************************************)
(* C5.  In interactive mode the j-th entry of the actual ledger belongs to *)
(* the j-th candidate: removed=true with the size measured on disk when    *)
(* the operator said yes and the removal succeeded, removed=false with the *)
(* discovered size when the operator said no or typed nothing, or the      *)
(* removal failed.  The returned total is the sum of the removed=true      *)
(* entries.                                                                *)
(***************************************************************************)
C5_InteractiveLedger ==
    InInteractive =>
        /\ Len(summary) = Len(answers)
        /\ Len(summary) <= Len(items)
        /\ \A j \in 1..Len(summary) :
              summary[j] = IF answers[j] THEN AttemptEntry(items[j])
                           ELSE SkippedEntry(items[j])
        /\ Len(answers) > 0 =>
              /\ lastInput \in {"y", "yes"} => answers[Len(answers)]
              /\ lastInput \in {"n", "no", ""} => ~answers[Len(answers)]
        /\ Returned => /\ Len(summary) = Len(items)
                       /\ totalReclaimed = SumRemoved(summary)

C5_Witness ==
    /\ Returned /\ InInteractive /\ Len(items) = 2
    /\ answers = <<TRUE, FALSE>> /\ lastInput = ""
    /\ summary[1].WasRemoved /\ summary[1].SizeReclaimed = 1 /\ items[1].Size = 0
    /\ ~summary[2].WasRemoved /\ summary[2].SizeReclaimed = 1
    /\ totalReclaimed = 1

(***************************************************************************)
(* C6.  In the interactive mode, the application mode and the default mode *)
(* after an accepted confirmation, a declined item or a failed removal     *)
(* does not end the loop: on return the actual ledger has one entry per    *)
(* candidate, in candidate order, and the error is nil.                    *)
(***************************************************************************)
C6_BatchAlwaysContinues ==
    (Returned /\ items # <<>>
        /\ (InInteractive \/ InAppMode \/ (InBatchMode /\ answers = <<TRUE>>))) =>
        /\ Len(summary) = Len(items)
        /\ \A j \in 1..Len(items) : summary[j].Path = items[j].ActualPath
        /\ err = "nil"

C6_Witness ==
    /\ Returned /\ InAppMode /\ Len(items) = 2
    /\ fs[items[1].ActualPath].st = "denied"
    /\ ~summary[1].WasRemoved
    /\ summary[2].WasRemoved /\ summary[2].SizeReclaimed = 1

(***************************************************************************)
(* C7.  The mode is picked by precedence: dryRun first, whatever the other *)
(* two flags; then interactive, also when isApp is set; then isApp; then   *)
(* the single confirmation.  Each call runs exactly the behaviour of its   *)
(* mode: the dry run asks nothing and removes nothing, the interactive     *)
(* mode asks once per candidate, the application mode asks nothing and     *)
(* tries every candidate, the default mode asks once.                      *)
(***************************************************************************)
C7_ModePrecedence ==
    /\ pc = "dryrun" => dryRun
    /\ pc = "interactive" => (~dryRun /\ interactive)
    /\ pc = "app" => (~dryRun /\ ~interactive /\ isApp)
    /\ pc \in {"confirm", "batch"} => (~dryRun /\ ~interactive /\ ~isApp)
    /\ (Returned /\ items # <<>>) =>
          /\ dryRun => (answers = <<>> /\ removeCalls = <<>>)
          /\ (~dryRun /\ interactive) => Len(answers) = Len(items)
          /\ (~dryRun /\ ~interactive /\ isApp) =>
                (answers = <<>> /\ Len(removeCalls) = Len(items))
          /\ (~dryRun /\ ~interactive /\ ~isApp) => Len(answers) = 1

C7_Witness ==
    /\ Returned /\ ~dryRun /\ interactive /\ isApp
    /\ Len(items) = 2 /\ answers = <<FALSE, TRUE>>

(***************************************************************************)
(* C8.  In application mode no confirmation is asked, the removal of every *)
(* candidate is tried, in order, and every candidate is recorded as in the *)
(* interactive mode: removed=true with the measured size on success,       *)
(* removed=false with the discovered size on failure.                      *)
(***************************************************************************)
C8_AppModeUnprompted ==
    InAppMode =>
        /\ answers = <<>>
        /\ Len(summary) = Len(removeCalls)
        /\ \A j \in 1..Len(summary) :
              /\ removeCalls[j] = items[j].ActualPath
              /\ summary[j] = AttemptEntry(items[j])
        /\ (Returned /\ items # <<>>) => removeCalls = ActualPaths(items)

C8_Witness ==
    /\ Returned /\ InAppMode /\ Len(items) = 2
    /\ summary[1].WasRemoved /\ summary[1].SizeReclaimed = 1 /\ items[1].Size = 0
    /\ ~summary[2].WasRemoved /\ summary[2].SizeReclaimed = 1
    /\ totalReclaimed = 1

(***************************************************************************)
(* C9.  Outside the dry run, the total of the actual ledger                *)
(* (TotalReclaimedBytes, the TOTAL RECLAIMED footer of its table) is the   *)
(* sum of its removed=true entries; removed=false entries add nothing.     *)
(***************************************************************************)
C9_ActualTotalCountsRemovedOnly ==
    (Returned /\ ~dryRun) =>
        /\ TotalReclaimedBytes(summary) = SumRemoved(summary)
        /\ PrintTable(summary, FALSE).footer = SumRemoved(summary)

(***************************************************************************)
(* C10.  ContainsPath(p, L) is true exactly when the cleaned absolute form *)
(* of p equals the cleaned absolute form of some expanded entry e of L, or *)
(* lies below it, element by element (so /b/bc is not below /b/b); this    *)
(* for every entry, the root directory included.                           *)
(***************************************************************************)
\* The elements of a cleaned absolute path: none for the root.
PathElements(clean) ==
    LET parts == SplitSlash(clean)
    IN  [j \in 1..Cardinality({n \in 1..Len(parts) : parts[n] # <<>>}) |->
            parts[CHOOSE n \in 1..Len(parts) :
                    /\ parts[n] # <<>>
                    /\ Cardinality({q \in 1..n : parts[q] # <<>>}) = j]]

\* t is e or lies below e.
AtOrBelow(t, e) ==
    LET te == PathElements(t)
        ee == PathElements(e)
    IN  Len(ee) <= Len(te) /\ SubSeq(te, 1, Len(ee)) = ee

CanonicalEntry(e) == Clean(Abs(ExpandPath(e, home)))

C10_ContainsPathIffAtOrBelow ==
    cpPc = "done" =>
        (cpResult <=> \E k \in 1..Len(ignorePaths) :
                          AtOrBelow(Clean(Abs(targetPath)), CanonicalEntry(ignorePaths[k])))

(***************************************************************************)
(* C11.  With HOME set, an ignore entry spelled "~/x", "$HOME/x" or as the *)
(* absolute path of x under the home directory is the same entry: each     *)
(* spelling ignores exactly the paths at or below home/x, a scan with the  *)
(* entry respelled finds the same candidates, and a path at or below the   *)
(* entry is no candidate and is in neither ledger.                         *)
(***************************************************************************)
\* Whether e is one of the three spellings, and the x it spells.
HomeSpelling(e, h) ==
    IF HasPrefix(e, strTildeSlash)
    THEN [home |-> TRUE, rest |-> SubSeq(e, Len(strTildeSlash) + 1, Len(e))]
    ELSE IF HasPrefix(e, DollarHome \o <<"/">>)
    THEN [home |-> TRUE, rest |-> SubSeq(e, Len(DollarHome) + 2, Len(e))]
    ELSE IF h # <<>> /\ HasPrefix(e, h \o <<"/">>)
    THEN [home |-> TRUE, rest |-> SubSeq(e, Len(h) + 2, Len(e))]
    ELSE [home |-> FALSE, rest |-> <<>>]

Spellings(x, h) == {strTildeSlash \o x, DollarHome \o <<"/">> \o x, h \o <<"/">> \o x}

\* The leaves at or below home/x, for every x the ignore entries spell.
LeavesUnderHome ==
    [e \in SystemIgnoreEntries |->
        {p \in Leaves : AtOrBelow(p, Clean(UserHome \o <<"/">> \o HomeSpelling(e, UserHome).rest))}]

LedgerPaths(st) == {st[j].Path : j \in 1..Len(st)}

CandidatePaths == {items[j].ActualPath : j \in 1..Len(items)}

C11_HomeSpellingsEquivalent ==
    \A k \in 1..Len(ignorePaths) :
        LET e == ignorePaths[k]
            x == HomeSpelling(e, home).rest
        IN  (home = UserHome /\ HomeSpelling(e, home).home) =>
                /\ wipePc = "start" =>
                       \A p \in Leaves, s \in Spellings(x, home) :
                           ContainsPath(p, <<s>>, home) <=> p \in LeavesUnderHome[e]
                /\ (wipePc = "CleanSystem" /\ pc = "call") =>
                       \A s \in Spellings(x, home) :
                           CleanSystemScan(fs, [ignorePaths EXCEPT ![k] = s], home,
                                           showWarnings).items = items
                /\ \A p \in LeavesUnderHome[e] :
                       /\ p \notin CandidatePaths
                       /\ p \notin LedgerPaths(estimatedSummary)
                       /\ p \notin LedgerPaths(summary)
                       /\ \A j \in 1..Len(removeCalls) : removeCalls[j] # p

\* A finished cleanup that removed the temp file and left the cache file,
\* present and matched by a pattern, alone: its directory was ignored by
\* the "$HOME" spelling.
C11_Witness ==
    /\ wipePc = "done"
    /\ ignorePaths = <<DollarHome \o <<"/">> \o JoinSlash(<<strLibrary, strCaches>>)>>
    /\ StatOk(fs, CachesX)
    /\ LedgerPaths(summary) = {TmpY}
    /\ LedgerPaths(estimatedSummary) = {TmpY}

(***************************************************************************)
(* C12.  A path the ignore list covers, that is a path equal to or below   *)
(* one of its entries, is never emitted as a candidate and never reaches   *)
(* RemovePath.                                                             *)
(***************************************************************************)
C12_IgnoredNeverReachesRemovePath ==
    \A k \in 1..Len(ignorePaths), p \in Leaves :
        AtOrBelow(p, CanonicalEntry(ignorePaths[k])) =>
            /\ p \notin CandidatePaths
            /\ \A j \in 1..Len(removeCalls) : removeCalls[j] # p

(***************************************************************************)
(* C13.  The large-file scan emits a candidate for a node it visits        *)
(* exactly when the node is a regular file the ignore test lets through    *)
(* whose allocation (blocks times 512, or the logical length without block *)
(* data) is at least 100 MiB: a file of exactly 100 MiB is emitted, a file *)
(* one block smaller is not, and no directory is emitted.                  *)
(***************************************************************************)
\* The scan has just handed its candidates to processCleanupItems.
LargeScanDone == wipePc = "CleanLargeFiles" /\ pc = "call"

Allocation(node) == IF "blocks" \in DOMAIN node THEN node.blocks * 512 ELSE node.size

RegularFile(p) == StatOk(fs, p) /\ fs[p].kind = "file"

LetThrough(p) == ~ContainsPath(p, cleanedIgnorePaths(ignorePaths, home), home)

MatchingRoots(p, rs) == {rs[k] : k \in {n \in 1..Len(rs) : HasPrefix(p, rs[n])}}

LongestMatchingRoot(p, rs) ==
    IF MatchingRoots(p, rs) = {} THEN p
    ELSE CHOOSE r \in MatchingRoots(p, rs) : \A q \in MatchingRoots(p, rs) : Len(q) <= Len(r)

Respelled(n) == IF HasSuffix(n, strDotApp) THEN TrimSuffix(n, strDotApp) ELSE n \o strDotApp

\* UninstallApplication has just collected its candidates.
AppScanDone ==
    wipePc = "UninstallApplication" /\ pc \in {"call", "done"} /\ removeCalls = <<>>

C15_NormalizationIdempotent ==
    \A k \in 1..Len(args) :
        LET n     == args[k]
            named == NormalizeAppName(n)
            one   == UninstallApplicationScan(n, fs, ignorePaths, home)
            other == UninstallApplicationScan(Respelled(n), fs, ignorePaths, home)
        IN  /\ HasSuffix(n, strDotApp) => named = n
            /\ ~HasSuffix(n, strDotApp) => named = n \o strDotApp
            /\ NormalizeAppName(named) = named
            /\ wipePc = "confirmed" =>
                   /\ one.name = other.name
                   /\ one.patterns = other.patterns
                   /\ one.items = other.items
            /\ AppScanDone => items = other.items

\* "Foo.app" was given, and the scan found what a scan for "Foo" finds:
\* the bundle /Applications/Foo.app.
C15_Witness ==
    /\ AppScanDone
    /\ args = <<FooName \o strDotApp>>
    /\ FooBundle \in CandidatePaths
    /\ items = UninstallApplicationScan(FooName, fs, ignorePaths, home).items

(***************************************************************************)
(* C16.  In the application scan every discovered path yields exactly one  *)
(* candidate: a candidate is tagged "Application Bundle" exactly when it   *)
(* is the bundle matched under an install root, and every match of a       *)
(* leftover pattern is tagged "Application Leftover" and is no other       *)
(* candidate.                                                              *)
(***************************************************************************)
\* The bundle paths of the name given: one below each install root.
BundlePaths ==
    {JoinAll(<<base, NormalizeAppName(args[1])>>) : base \in Range(appInstallPaths(home))}

\* What the leftover patterns of the name given match on disk.
LeftoverMatches ==
    Range(GlobAll(appDataPaths(home, TrimSuffix(NormalizeAppName(args[1]), strDotApp)), fs))

CandidatesOf(p) == {j \in 1..Len(items) : items[j].ActualPath = p}

C16_OneCandidateTaggedByOrigin ==
    AppScanDone =>
        /\ \A j \in 1..Len(items) :
               /\ Cardinality(CandidatesOf(items[j].ActualPath)) = 1
               /\ items[j].Category = "Application Bundle"
                      <=> items[j].ActualPath \in BundlePaths
        /\ \A m \in LeftoverMatches :
               \A j \in CandidatesOf(m) : items[j].Category = "Application Leftover"

(***************************************************************************)
(* C17.  As stated: categorizeLargeFilePath gives every path the category  *)
(* of the first rule that matches it, in the order browser caches,         *)
(* Downloads and Documents, Library subtrees, system temp roots,           *)
(* developer-tool markers, generic home, generic system roots, fallback.   *)
(***************************************************************************)
\* The ordered rule list, for a path and its form with the home directory
\* written "~" (the path itself when there is no home directory).
ClassifierRules(p, n) ==
    <<[hit |-> ContainsAny(n, BrowserPatterns), cat |-> "Browser Caches"],
      [hit |-> HasPrefix(n, strTildeDownloads), cat |-> "User Downloads"],
      [hit |-> HasPrefix(n, strTildeDocuments), cat |-> "User Documents"],
      [hit |-> HasPrefix(n, strTildeApplicationSupport), cat |-> "Application Support Files"],
      [hit |-> HasPrefix(n, strTildeCaches), cat |-> "User Caches"],
      [hit |-> HasPrefix(n, strTildeContainers), cat |-> "User Container Data"],
      [hit |-> HasPrefix(n, strTildeGroupContainers), cat |-> "User Group Container Data"],
      [hit |-> HasPrefix(n, strTildeMessages), cat |-> "Messages Attachments"],
      [hit |-> HasPrefix(n, strTildeSpotlight), cat |-> "Spotlight Metadata"],
      [hit |-> HasPrefix(n, strTildeLibrary), cat |-> "Other User Library Files"],
      [hit |-> HasAnyPrefix(p, <<strPrivateVarFolders, strPrivateVarTmp, strTmp>>),
       cat |-> "System Temporary Files"],
      [hit |-> ContainsAny(n, DeveloperMarkers), cat |-> "Developer Tool Caches/Data"],
      [hit |-> HasPrefix(n, strTildeSlash), cat |-> "User Home Files"],
      [hit |-> HasAnyPrefix(p, <<strVar, strUsr, strOpt>>), cat |-> "System Files"],
      [hit |-> TRUE, cat |-> "Other Large Files"]>>

FirstMatch(rules) ==
    rules[CHOOSE k \in 1..Len(rules) : rules[k].hit /\ \A j \in 1..(k - 1) : ~rules[j].hit].cat

FirstRuleCategory(p, h) ==
    FirstMatch(ClassifierRules(p, IF h # <<>> /\ HasPrefix(p, h)
                                  THEN strTilde \o SubSeq(p, Len(h) + 1, Len(p))
                                  ELSE p))

C17_FirstMatchWins ==
    callPc = "done" => retCategory = FirstRuleCategory(argPath, home)

(***************************************************************************)
(* C17, amended.  When the home directory resolves, the category is that   *)
(* of the first matching rule of the ordered list: a path under a browser  *)
(* cache root is "Browser Caches", and a developer-tool marker inside      *)
(* ~/Library or ~/Downloads loses to the Library or Downloads rule.  When  *)
(* it does not resolve, the list is not consulted: a path starting with    *)
(* /private/var or /tmp is "System Temporary Files", any other path is     *)
(* "Other Large Files".                                                    *)
(***************************************************************************)
C17_FirstMatchWinsWhenHomeResolves ==
    callPc = "done" =>
        IF home # <<>>
        THEN /\ retCategory = FirstRuleCategory(argPath, home)
             /\ HasPrefix(argPath, home \o SubSeq(strBrowserChromeCaches, 2,
                                                  Len(strBrowserChromeCaches)))
                    => retCategory = "Browser Caches"
             /\ ContainsAny(argPath, DeveloperMarkers) =>
                    /\ HasPrefix(argPath, home \o <<"/">> \o strDownloads)
                           => retCategory = "User Downloads"
                    /\ HasPrefix(argPath, home \o <<"/">> \o strLibrary)
                           => retCategory # "Developer Tool Caches/Data"
        ELSE retCategory = IF HasPrefix(argPath, strPrivateVar) \/ HasPrefix(argPath, strTmp)
                           THEN "System Temporary Files"
                           ELSE "Other Large Files"

\* A file below a directory named .npm in ~/Library/Containers: both the
\* Library rule and the later developer-tool rule match it.
C17_Witness ==
    /\ callPc = "done"
    /\ home = UserHome
    /\ argPath = UserHome \o SubSeq(strTildeContainers, 2, Len(strTildeContainers))
                     \o <<"/">> \o strDotNpm \o <<"/", "f">>
    /\ retCategory = "User Container Data"

(***************************************************************************)
(* C18.  wipe --large-files with an application name returns the           *)
(* validation error before any strategy runs: nothing is scanned, nothing  *)
(* is asked, nothing is deleted, and both ledgers stay empty.              *)
(***************************************************************************)
ConflictingInvocation == largeFilesFlag /\ Len(args) > 0

NothingHappened ==
    /\ items = <<>>
    /\ logged = <<>>
    /\ aggregatedForTable = <<>>
    /\ answers = <<>>
    /\ removeCalls = <<>>
    /\ estimatedSummary = NewSummaryTable
    /\ summary = NewSummaryTable
    /\ pc = "idle"
    /\ reclaimed = 0

C18_ConflictIsAValidationError ==
    ConflictingInvocation =>
        /\ NothingHappened
        /\ wipePc \in {"start", "done"}
        /\ wipePc = "done"
               => runErr = "the --large-files flag cannot be used with an application name"

\* The run has returned, with a file of the threshold size on disk that a
\* scan would have found.
C18_Witness ==
    /\ ConflictingInvocation
    /\ wipePc = "done"
    /\ runErr # "nil"
    /\ ignorePaths = <<>>
    /\ fs[PrivateTmpZ].st = "present"

(***************************************************************************)
(* C19.  A run whose operator declines a confirmation is not a failed run: *)
(* it returns no error, reports zero bytes reclaimed, and leaves the       *)
(* actual ledger empty.                                                    *)
(***************************************************************************)
Declined == answers # <<>> /\ ~answers[Len(answers)]

C19_CancellationIsNotAnError ==
    (wipePc = "done" /\ Declined) =>
        /\ runErr = "nil"
        /\ reclaimed = 0
        /\ summary = NewSummaryTable
        /\ removeCalls = <<>>

(***************************************************************************)
(* C20.  Two runs over the same filesystem, flags, ignore list and         *)
(* operator answers that differ only in WIPER_SHOW_WARNINGS and            *)
(* WIPER_SHOW_DETAILS produce the same candidates, the same prompts, the   *)
(* same deletions, the same two ledgers and the same total and error.      *)
(***************************************************************************)
\* An outcome without what the toggles are allowed to change: the log.
Behaviour(outcome) == [outcome EXCEPT !.logged = <<>>]

\* The second run has returned, after the same answers as the first.
SameRunTwice ==
    /\ wipePc = "done"
    /\ runsBefore # <<>>
    /\ answers = runsBefore[1].answers

C20_TogglesDoNotInfluenceTheRun ==
    SameRunTwice => Behaviour(Outcome) = Behaviour(runsBefore[1])

\* Two runs that asked, were answered yes and called RemovePath, and whose
\* logs differ.
C20_Witness ==
    /\ SameRunTwice
    /\ answers # <<>>
    /\ removeCalls # <<>>
    /\ logged # runsBefore[1].logged

(***************************************************************************)
(* C21.  Two dry runs of the same strategy with the same ignore list and   *)
(* fresh ledgers return the same total and produce the same estimated      *)
(* ledger, and the first leaves the filesystem as it found it.             *)
(***************************************************************************)
\* The second dry run has returned, after the same answers as the first.
SecondDryRunDone ==
    /\ dryRunFlag
    /\ wipePc = "done"
    /\ runsBefore # <<>>
    /\ answers = runsBefore[1].outcome.answers

C21_DryRunRepeats ==
    SecondDryRunDone =>
        /\ fs = runsBefore[1].fs
        /\ reclaimed = runsBefore[1].outcome.reclaimed
        /\ runErr = runsBefore[1].outcome.runErr
        /\ items = runsBefore[1].outcome.items
        /\ estimatedSummary = runsBefore[1].outcome.estimatedSummary
        /\ summary = NewSummaryTable
        /\ removeCalls = <<>>

\* Two dry runs that listed something.
C21_Witness ==
    /\ SecondDryRunDone
    /\ runErr = "nil"
    /\ reclaimed > 0
    /\ Len(estimatedSummary) > 0

(***************************************************************************)
(* C22.  In the large-file walk an ignored directory is pruned with its    *)
(* whole subtree: nothing below it is visited or emitted.  An ignored      *)
(* regular file is skipped alone: every other entry of its directory is    *)
(* still visited, and emitted when it is a large file that is not ignored. *)
(***************************************************************************)
IgnoredInWalk(p) == IsPathIgnored(p, cleanedIgnorePaths(ignorePaths, home), home)

Below(p) == {q \in WorldPaths : HasPrefix(q, p \o <<"/">>)}

SiblingsOf(p) ==
    {q \in WorldPaths : \E d \in WorldPaths :
        /\ q # p
        /\ Listed(fs, q)
        /\ \E k \in 1..Len(ChildrenOf[d]) : ChildrenOf[d][k] = p
        /\ \E k \in 1..Len(ChildrenOf[d]) : ChildrenOf[d][k] = q}

C22_IgnoredDirectoryPrunedFileSkipped ==
    LargeScanDone =>
        LET visited == CleanLargeFilesScan(fs, ignorePaths, home, showWarnings,
                                           showDetails).visited
            Visited == {visited[k] : k \in 1..Len(visited)}
        IN  \A p \in Visited :
                (StatOk(fs, p) /\ IgnoredInWalk(p)) =>
                    /\ p \notin CandidatePaths
                    /\ fs[p].kind = "dir" =>
                           /\ Below(p) \cap Visited = {}
                           /\ Below(p) \cap CandidatePaths = {}
                    /\ fs[p].kind = "file" =>
                           /\ SiblingsOf(p) \subseteq Visited
                           /\ \A q \in SiblingsOf(p) :
                                  (RegularFile(q) /\ ~IgnoredInWalk(q)
                                      /\ Allocation(fs[q]) >= 100 * 1024 * 1024)
                                      => q \in CandidatePaths

\* An ignored large file whose large sibling was emitted.
C22_Witness ==
    /\ LargeScanDone
    /\ ignorePaths = <<CachesFoo>>
    /\ fs[CachesFoo] = LargeFile
    /\ fs[CachesX] = LargeFile
    /\ CachesX \in CandidatePaths
    /\ CachesFoo \notin CandidatePaths

\* An ignored directory with large files below it, none of them emitted.
C22_WitnessDirectory ==
    /\ LargeScanDone
    /\ ignorePaths = <<DirCaches>>
    /\ fs[CachesFoo] = LargeFile
    /\ fs[DownloadsBig] = LargeFile
    /\ CachesFoo \notin CandidatePaths
    /\ DownloadsBig \in CandidatePaths

(***************************************************************************)
(* C23.  In the declarative scan a match that is not ignored and can be    *)
(* read is left out for its age exactly when its target has MinAge > 0 and *)
(* the match was modified less than MinAge ago: a target with MinAge = 0   *)
(* emits every such match, and a match exactly MinAge old is emitted.      *)
(***************************************************************************)
\* The scan has just handed its candidates to processCleanupItems.
SystemScanDone == wipePc = "CleanSystem" /\ pc = "call"

IgnoredInSystem(p) ==
    ContainsPath(p, [k \in 1..Len(ignorePaths) |-> ExpandPath(ignorePaths[k], home)], home)

EmittedFor(p, target) ==
    \E j \in 1..Len(items) :
        items[j].ActualPath = p /\ items[j].Category = target.Category

C23_SkippedForAgeIffYoungerThanMinAge ==
    SystemScanDone =>
        \A target \in Range(CleanupTargets[home]) :
            \A pattern \in Range(target.Paths) :
                \A p \in Range(Glob(pattern, fs)) :
                    (~IgnoredInSystem(p) /\ StatOk(fs, p)) =>
                        /\ ~EmittedFor(p, target)
                               <=> (target.MinAge > 0 /\ fs[p].age < target.MinAge)
                        /\ target.MinAge = 0 => EmittedFor(p, target)
                        /\ fs[p].age = target.MinAge => EmittedFor(p, target)

\* A file in /tmp modified exactly 24 hours ago, emitted by the target
\* whose MinAge is 24 hours.
C23_Witness ==
    /\ SystemScanDone
    /\ ignorePaths = <<>>
    /\ StatOk(fs, TmpY)
    /\ fs[TmpY].age = 24
    /\ \E j \in 1..Len(items) :
           items[j].ActualPath = TmpY /\ items[j].Category = "System Temporary Files"

(***************************************************************************)
(* C24.  A path that cannot be read during discovery is skipped alone:     *)
(* every other match that is readable, not ignored and old or large enough *)
(* is still emitted, in each of the three strategies; the strategy goes on *)
(* to processCleanupItems and the run returns no error.                    *)
(***************************************************************************)
\* The application scan has just handed its candidates on.
AppScanHandedOn == wipePc = "UninstallApplication" /\ pc \in {"call", "done"} /\ i = 1
                       /\ estimatedSummary = NewSummaryTable

ScanDone == SystemScanDone \/ LargeScanDone \/ AppScanHandedOn

\* What each strategy has to emit whatever else cannot be read.
SystemExpected ==
    {p \in Leaves : \E target \in Range(CleanupTargets[home]) :
        \E pattern \in Range(target.Paths) :
            /\ p \in Range(Glob(pattern, fs))
            /\ StatOk(fs, p)
            /\ ~IgnoredInSystem(p)
            /\ ~(target.MinAge > 0 /\ fs[p].age < target.MinAge)}

LargeExpected ==
    {p \in Leaves :
        /\ \E k \in 1..Len(dirsToScan(home)) : HasPrefix(p, dirsToScan(home)[k] \o <<"/">>)
        /\ RegularFile(p)
        /\ ~IgnoredInWalk(p)
        /\ Allocation(fs[p]) >= 100 * 1024 * 1024}

AppExpected ==
    {p \in Leaves :
        /\ p \in Range(GlobAll(appDataPaths(home, TrimSuffix(NormalizeAppName(args[1]),
                                                             strDotApp)), fs))
               \cup Range(GlobAll([k \in 1..Len(appInstallPaths(home)) |->
                                      JoinAll(<<appInstallPaths(home)[k],
                                                NormalizeAppName(args[1])>>)], fs))
        /\ StatOk(fs, p)
        /\ ~IsPathIgnored(p, ignorePaths, home)}

\* A path of the world that discovery came upon and could not read.
Unreadable == {p \in Leaves : fs[p].st = "denied"}

C24_PerPathErrorSkipsThatPathOnly ==
    /\ SystemScanDone => SystemExpected \subseteq CandidatePaths
    /\ LargeScanDone => LargeExpected \subseteq CandidatePaths
    /\ AppScanHandedOn => AppExpected \subseteq CandidatePaths
    /\ ScanDone => Unreadable \cap CandidatePaths = {}
    /\ (ScanDone /\ items # <<>>) => pc = "call"
    /\ (wipePc = "done" /\ ~Declined) =>
           /\ runErr = "nil"
           /\ Len(estimatedSummary) = Len(items)

\* A system scan that could not read one cache entry and emitted the next.
C24_Witness ==
    /\ SystemScanDone
    /\ showWarnings
    /\ fs[CachesFoo].st = "denied"
    /\ StatOk(fs, CachesX)
    /\ ignorePaths = <<>>
    /\ \E k \in 1..Len(logged) : logged[k].path = CachesFoo
    /\ CachesX \in CandidatePaths

(***************************************************************************)
(* C25.  Both ledgers are append-only and ordered by insertion: AddEntry   *)
(* makes the ledger one entry longer, with the new entry last and every    *)
(* earlier entry as it was, and no step of a run removes, reorders or      *)
(* rewrites an entry of either ledger.                                     *)
(***************************************************************************)
IsPrefixOf(s, t) == Len(s) <= Len(t) /\ SubSeq(t, 1, Len(s)) = s

\* AddEntry on ledger st for candidate item.
AddsLast(st, item, removed) ==
    LET after == AddEntry(st, item.ActualPath, item.Size, removed, item.Category)
    IN  /\ Len(after) = Len(st) + 1
        /\ after[Len(after)] = [Path |-> item.ActualPath, SizeReclaimed |-> item.Size,
                                WasRemoved |-> removed, Category |-> item.Category]
        /\ SubSeq(after, 1, Len(st)) = st

C25_LedgersAppendOnly ==
    [][/\ IsPrefixOf(estimatedSummary, estimatedSummary')
       /\ IsPrefixOf(summary, summary')
       /\ Len(summary') <= Len(summary) + 1
       /\ Len(estimatedSummary') \in {Len(estimatedSummary),
                                      Len(estimatedSummary) + Len(items)}
       /\ \A k \in 1..(Len(estimatedSummary') - Len(estimatedSummary)) :
              estimatedSummary'[Len(estimatedSummary) + k].Path = items[k].ActualPath
       /\ \A j \in 1..Len(items), removed \in BOOLEAN :
              AddsLast(summary, items[j], removed) /\ AddsLast(estimatedSummary, items[j], removed)
      ]_vars

\* Both ledgers hold two entries, in the order of the candidates.
C25_Witness ==
    /\ Len(items) = 2
    /\ Len(estimatedSummary) = 2
    /\ Len(summary) = 2
    /\ summary[1].Path = items[1].ActualPath
    /\ summary[2].Path = items[2].ActualPath
    /\ items[1].ActualPath # items[2].ActualPath

(***************************************************************************)
(* C26.  Without --large-files the engine is never called in interactive   *)
(* mode, whatever --interactive says: system cleanup asks once for all     *)
(* candidates, application uninstall asks once before the scan, and        *)
(* neither asks about a single candidate.                                  *)
(***************************************************************************)
C26_InteractiveOnlyInLargeFileMode ==
    ~largeFilesFlag =>
        /\ ~interactive
        /\ pc # "interactive"
        /\ Len(answers) <= 1
        /\ Len(args) = 0 => (answers # <<>> => pc \in {"batch", "done"})
        /\ Len(args) = 1 => (answers # <<>> => wipePc # "start")

\* wipe --interactive without --large-files: two candidates went to
\* RemovePath after the one confirmation.
C26_Witness ==
    /\ ~largeFilesFlag
    /\ interactiveFlag
    /\ ~dryRunFlag
    /\ wipePc = "done"
    /\ Len(answers) = 1
    /\ Len(removeCalls) = 2

(***************************************************************************)
(* C27.  One large-file scan emits each regular file at most once, so the  *)
(* estimated total counts its size at most once, although the scan roots   *)
(* /Users, $HOME/Downloads and $HOME/Documents contain one another when    *)
(* the home directory lies under /Users.                                   *)
(***************************************************************************)
RECURSIVE SumOfSizes(_)
SumOfSizes(paths) ==
    IF paths = {} THEN 0
    ELSE LET p == CHOOSE q \in paths : TRUE
         IN  Allocation(fs[p]) + SumOfSizes(paths \ {p})

C27_EachFileEmittedOnce ==
    /\ LargeScanDone =>
           \A j \in 1..Len(items), k \in 1..Len(items) :
               items[j].ActualPath = items[k].ActualPath => j = k
    /\ (largeFilesFlag /\ wipePc = "done") => reclaimed = SumOfSizes(CandidatePaths)

(***************************************************************************)
(* C28.  In one declarative scan no candidate's actual path is equal to or *)
(* below the actual path of another candidate, so no byte is counted twice *)
(* in the estimated total and no candidate is deleted with the directory   *)
(* of an earlier one.                                                      *)
(***************************************************************************)
C28_NoCandidateInsideAnother ==
    SystemScanDone =>
        \A j \in 1..Len(items), k \in 1..Len(items) :
            j # k =>
                /\ items[j].ActualPath # items[k].ActualPath
                /\ ~HasPrefix(items[j].ActualPath, items[k].ActualPath \o <<"/">>)

(***************************************************************************)
(* C29.  In every deleting mode an entry of the actual ledger says         *)
(* removed = true only for a candidate that was on disk when RemovePath    *)
(* was called on it: a candidate gone since discovery is not reported as   *)
(* removed.                                                                *)
(***************************************************************************)
C29_RemovedOnlyIfItExisted ==
    \A k \in 1..Len(summary) :
        summary[k].WasRemoved => fs[summary[k].Path].st = "present"

(***************************************************************************)
(* C30.  A large file found under one of the system temp roots of the      *)
(* scan, /private/var/folders and /private/tmp, is classified "System      *)
(* Temporary Files" when the home directory is not a prefix of its path.   *)
(***************************************************************************)
UnderTempRoot(p) ==
    \/ HasPrefix(p, strPrivateVarFolders \o <<"/">>)
    \/ HasPrefix(p, strPrivateTmp \o <<"/">>)

C30_TempRootFilesAreSystemTemporary ==
    LargeScanDone =>
        \A j \in 1..Len(items) :
            (UnderTempRoot(items[j].ActualPath) /\ ~HasPrefix(items[j].ActualPath, home))
                => items[j].Category = "System Temporary Files"

=============================================================================
